---- MODULE Spec2Model ----
(***************************************************************************)
(* Model of the collaborative whiteboard client (src/src/App.tsx and the   *)
(* shape utilities): the replicated scene (shapes, strokes, eraser         *)
(* strokes), the pointer / keyboard interaction controller and the         *)
(* handler of inbound relay messages.                                      *)
(*                                                                         *)
(* Representation:                                                         *)
(*  - a Shape / message is a record holding exactly the fields that are    *)
(*    present in the JavaScript object (an absent optional field is a      *)
(*    field missing from the record's DOMAIN);                             *)
(*  - a string the code edits character by character (shape.text,          *)
(*    editingText) is a sequence of one-character strings;                 *)
(*  - null ids are the string "null"; a null point is the empty tuple,     *)
(*    a point is <<x, y>>;                                                 *)
(*  - a circle's radius field holds the SQUARE of the radius: every radius *)
(*    the code produces is sqrt of an integer (Math.sqrt(dx*dx + dy*dy)),  *)
(*    so the square is exact where the root is not.                        *)
(***************************************************************************)
EXTENDS Integers, Sequences, FiniteSets, TLC

VARIABLES
  view,                 \* 'login' | 'roomList' | 'whiteboard'
  username,             \* useState('')
  currentRoom,          \* roomId of the joined room, or "null"
  readyState,           \* wsRef.current.readyState
  drawingMode,          \* tool mode
  eraserSize,           \* 1..4
  shapes,               \* Shape[]
  strokes,              \* { points: DrawPoint[] }[]
  eraserStrokes,        \* { points: DrawPoint[] }[]
  selectedShapeId,
  isDrawing,
  isDrawingShape,
  shapeStart,
  dragOffset,
  resizeHandle,
  editingText,
  editingTextId,
  currentStroke,
  currentEraserStroke,
  lastPoint,            \* useRef lastPoint.current
  userCursors,          \* Map<string, UserCursor>
  idClock,              \* number of ids generateShapeId has handed out
  last,                 \* history: the event handled by the last step
  out,                  \* history: wire messages sent by the last handler
  peerShapes,           \* SpecRelay: the shape list of each client
  net,                  \* SpecRelay: messages in flight to each client
  applied,              \* SpecRelay history: messages each client processed
  stamp                 \* SpecRelay history: number of edits generated

vars == << view, username, currentRoom, readyState, drawingMode, eraserSize,
           shapes, strokes,
           eraserStrokes, selectedShapeId, isDrawing, isDrawingShape,
           shapeStart, dragOffset, resizeHandle, editingText, editingTextId,
           currentStroke, currentEraserStroke, lastPoint, userCursors,
           idClock, last, out, peerShapes, net, applied, stamp >>

clientVars == << view, username, currentRoom, readyState, drawingMode,
                 eraserSize, shapes, strokes, eraserStrokes, selectedShapeId,
                 isDrawing, isDrawingShape, shapeStart, dragOffset,
                 resizeHandle, editingText, editingTextId, currentStroke,
                 currentEraserStroke, lastPoint, userCursors, idClock, last,
                 out >>
relayVars == << peerShapes, net, applied, stamp >>

(***************************************************************************)
(* Bounds of the model.                                                    *)
(***************************************************************************)
MaxShapes == 2          \* longest shape list explored
MaxText == 2            \* longest text buffer explored
MaxStrokes == 2         \* longest stroke / eraser-stroke list explored
MaxStrokePoints == 3    \* longest in-progress point buffer explored
MaxLocalIds == 2        \* number of ids generateShapeId hands out
MaxEdits == 2           \* number of local edits the peers of SpecRelay make

Null == "null"
NoPoint == << >>

(***************************************************************************)
(* Program constants.                                                      *)
(***************************************************************************)
InitialBrushColor == "#000000"
InitialBrushSize == 3
TextFontSize == 16

\* The username the onmessage handler compares against.  ws.onmessage is
\* installed once, by the mount effect, and closes over the
\* handleWebSocketMessage of the first render, whose `username` is the
\* initial state ''.
HandlerUsername == ""

LocalUsers == {"alice"}
Chars == {"a", " "}

Pt(x, y) == << x, y >>
DownPoint == Pt(20, 20)
UpPoint == Pt(40, 30)
Points == { DownPoint, UpPoint }

(***************************************************************************)
(* generateShapeId: `shape-${Date.now()}-${random}`.  The n-th id a client *)
(* generates is distinct from the ones it generated before.                *)
(***************************************************************************)
generateShapeId(n) == "shape-" \o ToString(n)

LocalIds == { generateShapeId(n) : n \in 1..MaxLocalIds }
RemoteIds == { "shape-r1" }
Ids == LocalIds \cup RemoteIds

(***************************************************************************)
(* Sequence helpers.                                                       *)
(***************************************************************************)
HasId(shps, id) == \E i \in 1..Len(shps) : shps[i].id = id

\* Array.prototype.find: the first element with the id, or "undefined"
FindShape(shps, id) ==
  IF HasId(shps, id)
  THEN shps[CHOOSE i \in 1..Len(shps) :
              /\ shps[i].id = id
              /\ \A j \in 1..(i - 1) : shps[j].id # id]
  ELSE [undefined |-> TRUE]

\* String.prototype.trim on a sequence of characters
RECURSIVE TrimLeft(_)
TrimLeft(t) == IF t # << >> /\ Head(t) = " " THEN TrimLeft(Tail(t)) ELSE t
RECURSIVE TrimRight(_)
TrimRight(t) ==
  IF t # << >> /\ t[Len(t)] = " " THEN TrimRight(SubSeq(t, 1, Len(t) - 1)) ELSE t
Trim(t) == TrimRight(TrimLeft(t))

(***************************************************************************)
(* Scene mutations applied by handleWebSocketMessage and by the local      *)
(* handlers (the functional setShapes updaters).                           *)
(***************************************************************************)
\* mutant: { ...updates, ...shape } (the fields of the existing shape win)
Merge_shapeWins(shape, updates) ==
  [f \in (DOMAIN shape) \cup (DOMAIN updates) |->
     IF f \in DOMAIN shape THEN shape[f] ELSE updates[f]]

\* { ...shape, ...updates }
Merge(shape, updates) ==
  [f \in (DOMAIN shape) \cup (DOMAIN updates) |->
     IF f \in DOMAIN updates THEN updates[f] ELSE shape[f]]

\* mutant: prev => [shape, ...prev]
AppendShape_front(shps, shape) == << shape >> \o shps

\* prev => [...prev, shape]
AppendShape(shps, shape) == Append(shps, shape)

\* mutant: an update of an id the scene does not hold inserts the shape
UpdateShape_upsert(shps, shapeId, updates) ==
  IF \E i \in 1..Len(shps) : shps[i].id = shapeId
    THEN [i \in 1..Len(shps) |->
            IF shps[i].id = shapeId THEN Merge(shps[i], updates) ELSE shps[i]]
    ELSE Append(shps, Merge([id |-> shapeId], updates))

\* mutant: x and y of the update are added to the shape's position
UpdateShape_relative(shps, shapeId, updates) ==
  [i \in 1..Len(shps) |->
     IF shps[i].id = shapeId
       THEN LET m == Merge(shps[i], updates) IN
            IF "x" \in DOMAIN updates /\ "x" \in DOMAIN shps[i]
              THEN [m EXCEPT !.x = shps[i].x + updates.x] ELSE m
       ELSE shps[i]]

\* mutant: the updates merged into every shape of the list
UpdateShape_all(shps, shapeId, updates) ==
  [i \in 1..Len(shps) |-> Merge(shps[i], updates)]

\* prev => prev.map(shape => shape.id === shapeId ? {...shape, ...updates} : shape)
UpdateShape(shps, shapeId, updates) ==
  [i \in 1..Len(shps) |->
     IF shps[i].id = shapeId THEN Merge(shps[i], updates) ELSE shps[i]]

\* prev => prev.map(s => s.id === shapeId ? updatedShape : s)
ReplaceShape(shps, shapeId, updatedShape) ==
  [i \in 1..Len(shps) |-> IF shps[i].id = shapeId THEN updatedShape ELSE shps[i]]

\* mutant: prev.splice(prev.findIndex(s => s.id === shapeId), 1), which
\* removes the last shape when the id is absent (index -1)
DeleteShape_splice(shps, shapeId) ==
  IF \E i \in 1..Len(shps) : shps[i].id = shapeId
    THEN LET k == CHOOSE i \in 1..Len(shps) :
                    /\ shps[i].id = shapeId
                    /\ \A j \in 1..(i - 1) : shps[j].id # shapeId
         IN  SubSeq(shps, 1, k - 1) \o SubSeq(shps, k + 1, Len(shps))
    ELSE SubSeq(shps, 1, Len(shps) - 1)

\* prev => prev.filter(shape => shape.id !== shapeId)
DeleteShape(shps, shapeId) == SelectSeq(shps, LAMBDA s : s.id # shapeId)

\* sendMessage: the message goes on the wire only when the socket is OPEN
sendMessage(msgs) == IF readyState = "OPEN" THEN msgs ELSE << >>

(***************************************************************************)
(* Geometry kernel (shapeUtils).  All coordinates of the model are         *)
(* integers; quotients and square roots of the source are compared after   *)
(* clearing denominators and squaring, which is exact.                     *)
(***************************************************************************)
Abs(a) == IF a < 0 THEN -a ELSE a
Max(a, b) == IF a >= b THEN a ELSE b
Min(a, b) == IF a <= b THEN a ELSE b

\* JavaScript truthiness of an optional numeric field: present and non-zero
Truthy(shape, f) == f \in DOMAIN shape /\ shape[f] # 0
\* shape.f !== undefined
Defined(shape, f) == f \in DOMAIN shape
\* mutant: the text test taking an empty string for text
HasText_defined(shape) == "text" \in DOMAIN shape

\* truthiness of shape.text: present and not the empty string
HasText(shape) == "text" \in DOMAIN shape /\ shape.text # << >>

\* sqrt(n) <= k and sqrt(n) >= k for an integer n >= 0 and an integer k
SqrtLe(n, k) == k >= 0 /\ n <= k * k
SqrtGe(n, k) == k <= 0 \/ n >= k * k

\* ctx.measureText(text).width at `${fontSize}px Arial`: the canvas is an
\* external collaborator; every character is taken to be CharWidth wide.
CharWidth == 8
measureText(text) == CharWidth * Len(text)

\* shape.fontSize || 16
FontSizeOf(shape) ==
  IF "fontSize" \in DOMAIN shape /\ shape.fontSize # 0 THEN shape.fontSize ELSE 16

\* distanceToLine(px, py, x1, y1, x2, y2) <= d, for an integer d >= 0.
\* param = dot / lenSq (or -1 when lenSq = 0); when 0 <= param <= 1 the
\* distance to the projection is |cross| / sqrt(lenSq).
distanceToLineLe(px, py, x1, y1, x2, y2, d) ==
  LET A == px - x1
      B == py - y1
      C == x2 - x1
      D == y2 - y1
      dot == A * C + B * D
      lenSq == C * C + D * D
      cross == A * D - B * C
  IN  IF lenSq = 0 \/ dot < 0
        THEN A * A + B * B <= d * d
      ELSE IF dot > lenSq
        THEN (px - x2) * (px - x2) + (py - y2) * (py - y2) <= d * d
      ELSE cross * cross <= d * d * lenSq

\* isPointInTriangle with the vertices given in doubled coordinates
\* (the apex x + width/2 is a half-integer); s, t and 1 - s - t are
\* quotients by 2 * area, compared with 0 by the sign of the product.
isPointInTriangle(px, py, x1, y1, x2, y2, x3, y3) ==
  LET area2 == -y2 * x3 + y1 * (-x2 + x3) + x1 * (y2 - y3) + x2 * y3
      sN == y1 * x3 - x1 * y3 + (y3 - y1) * px + (x1 - x3) * py
      tN == x1 * y2 - y1 * x2 + (y1 - y2) * px + (x2 - x1) * py
  IN  /\ area2 # 0
      /\ sN * area2 >= 0
      /\ tN * area2 >= 0
      /\ (area2 - sN - tN) * area2 >= 0

InBox(x, y, shape) ==
  /\ x >= shape.x
  /\ x <= shape.x + shape.width
  /\ y >= shape.y
  /\ y <= shape.y + shape.height

isPointInShape(x, y, shape) ==
  CASE shape.type = "rectangle" ->
         Truthy(shape, "width") /\ Truthy(shape, "height") /\ InBox(x, y, shape)
    [] shape.type = "circle" ->
         /\ Truthy(shape, "radius")
         /\ (x - shape.x) * (x - shape.x) + (y - shape.y) * (y - shape.y)
              <= shape.radius
    [] shape.type = "line" ->
         /\ Defined(shape, "endX") /\ Defined(shape, "endY")
         /\ distanceToLineLe(x, y, shape.x, shape.y, shape.endX, shape.endY, 5)
    [] shape.type = "triangle" ->
         /\ Truthy(shape, "width") /\ Truthy(shape, "height")
         /\ isPointInTriangle(2 * x, 2 * y,
                              2 * shape.x + shape.width, 2 * shape.y,
                              2 * shape.x, 2 * (shape.y + shape.height),
                              2 * (shape.x + shape.width),
                              2 * (shape.y + shape.height))
    [] shape.type = "text" ->
         IF Defined(shape, "width") /\ Defined(shape, "height")
           THEN InBox(x, y, shape)
         ELSE /\ HasText(shape)
              /\ x >= shape.x - 5
              /\ x <= shape.x + measureText(shape.text) + 100
              /\ y >= shape.y - 5
              /\ y <= shape.y + FontSizeOf(shape) + 5
    [] shape.type = "image" ->
         Truthy(shape, "width") /\ Truthy(shape, "height") /\ InBox(x, y, shape)
    [] OTHER -> FALSE

\* mutant: the hit test scanning the list front to back
ClickedIndex_first(shps, x, y) ==
  IF \E i \in 1..Len(shps) : isPointInShape(x, y, shps[i])
  THEN CHOOSE i \in 1..Len(shps) :
         /\ isPointInShape(x, y, shps[i])
         /\ \A j \in 1..(i - 1) : ~isPointInShape(x, y, shps[j])
  ELSE 0

\* [...shapes].reverse().find(shape => isPointInShape(x, y, shape)):
\* the index of the clicked shape, 0 when there is none
ClickedIndex(shps, x, y) ==
  IF \E i \in 1..Len(shps) : isPointInShape(x, y, shps[i])
  THEN CHOOSE i \in 1..Len(shps) :
         /\ isPointInShape(x, y, shps[i])
         /\ \A j \in (i + 1)..Len(shps) : ~isPointInShape(x, y, shps[j])
  ELSE 0

handleSize == 8
\* |x - hx| <= tolerance /\ |y - hy| <= tolerance with the handle position
\* given in doubled coordinates (tolerance = handleSize / 2)
NearHandle2(x, y, hx2, hy2) ==
  /\ Abs(2 * x - hx2) <= handleSize
  /\ Abs(2 * y - hy2) <= handleSize

\* the handles of a rectangle / image / text, in the order the code scans
BoxHandles(shape) ==
  << << "tl", 2 * shape.x, 2 * shape.y >>,
     << "tr", 2 * (shape.x + shape.width), 2 * shape.y >>,
     << "bl", 2 * shape.x, 2 * (shape.y + shape.height) >>,
     << "br", 2 * (shape.x + shape.width), 2 * (shape.y + shape.height) >>,
     << "t", 2 * shape.x + shape.width, 2 * shape.y >>,
     << "b", 2 * shape.x + shape.width, 2 * (shape.y + shape.height) >>,
     << "l", 2 * shape.x, 2 * shape.y + shape.height >>,
     << "r", 2 * (shape.x + shape.width), 2 * shape.y + shape.height >> >>

\* first handle of the list under the point, or "null"
FirstHandle(hs, x, y) ==
  IF \E i \in 1..Len(hs) : NearHandle2(x, y, hs[i][2], hs[i][3])
  THEN hs[CHOOSE i \in 1..Len(hs) :
            /\ NearHandle2(x, y, hs[i][2], hs[i][3])
            /\ \A j \in 1..(i - 1) : ~NearHandle2(x, y, hs[j][2], hs[j][3])][1]
  ELSE Null

\* |a - (c + sqrt(n))| <= tol  and  |a - (c - sqrt(n))| <= tol
NearPlusRoot(a, c, n, tol) == SqrtGe(n, a - c - tol) /\ SqrtLe(n, a - c + tol)
NearMinusRoot(a, c, n, tol) == SqrtGe(n, c - a - tol) /\ SqrtLe(n, c - a + tol)

getResizeHandle(shape, x, y) ==
  LET tolerance == handleSize \div 2 IN
  IF /\ shape.type \in {"rectangle", "image", "text"}
     /\ Truthy(shape, "width") /\ Truthy(shape, "height")
    THEN FirstHandle(BoxHandles(shape), x, y)
  ELSE IF shape.type = "circle" /\ Truthy(shape, "radius")
    THEN IF Abs(x - shape.x) <= tolerance
            /\ NearMinusRoot(y, shape.y, shape.radius, tolerance) THEN "t"
         ELSE IF NearPlusRoot(x, shape.x, shape.radius, tolerance)
                 /\ Abs(y - shape.y) <= tolerance THEN "r"
         ELSE IF Abs(x - shape.x) <= tolerance
                 /\ NearPlusRoot(y, shape.y, shape.radius, tolerance) THEN "b"
         ELSE IF NearMinusRoot(x, shape.x, shape.radius, tolerance)
                 /\ Abs(y - shape.y) <= tolerance THEN "l"
         ELSE Null
  ELSE IF shape.type = "line" /\ Defined(shape, "endX") /\ Defined(shape, "endY")
    THEN IF Abs(x - shape.x) <= tolerance /\ Abs(y - shape.y) <= tolerance
           THEN "start"
         ELSE IF Abs(x - shape.endX) <= tolerance
                 /\ Abs(y - shape.endY) <= tolerance
           THEN "end"
         ELSE Null
  ELSE Null

(***************************************************************************)
(* Eraser engine: isShapeTouchedByEraser.  The eraser centre (ex, ey) is   *)
(* given multiplied by k (the sample points of draw() are fifths of the    *)
(* segment), the eraser radius r and the shape in canvas units.            *)
(***************************************************************************)
Clamp(lo, v, hi) == Max(lo, Min(v, hi))

\* closest point of the box [l, r] x [t, b] to (ex, ey) is within rad
BoxTouched(ex, ey, l, r, t, b, rad) ==
  LET dx == ex - Clamp(l, ex, r)
      dy == ey - Clamp(t, ey, b)
  IN  dx * dx + dy * dy <= rad * rad

\* distanceToLineSegment(px, py, x1, y1, x2, y2) <= d, with
\* t = max(0, min(1, dot / lengthSquared)); for 0 < t < 1 the distance to
\* the projection is |cross| / sqrt(lengthSquared).
distanceToLineSegmentLe(px, py, x1, y1, x2, y2, d) ==
  LET dx == x2 - x1
      dy == y2 - y1
      lengthSquared == dx * dx + dy * dy
      dot == (px - x1) * dx + (py - y1) * dy
      cross == (px - x1) * dy - (py - y1) * dx
  IN  IF lengthSquared = 0 \/ dot <= 0
        THEN (px - x1) * (px - x1) + (py - y1) * (py - y1) <= d * d
      ELSE IF dot >= lengthSquared
        THEN (px - x2) * (px - x2) + (py - y2) * (py - y2) <= d * d
      ELSE cross * cross <= d * d * lengthSquared

\* sqrt(dd) <= rad + sqrt(nn) for integers dd, nn >= 0 and rad >= 0
RootLeSum(dd, rad, nn) ==
  LET e == dd + rad * rad - nn
  IN  \/ dd <= rad * rad
      \/ e <= 0
      \/ e * e <= 4 * rad * rad * dd

isShapeTouchedByEraser(ex, ey, r, shape, k) ==
  CASE shape.type = "text" ->
         /\ HasText(shape)
         /\ BoxTouched(ex, ey, k * shape.x, k * (shape.x + measureText(shape.text)),
                       k * shape.y, k * (shape.y + FontSizeOf(shape)), k * r)
    [] shape.type = "rectangle" ->
         /\ Truthy(shape, "width") /\ Truthy(shape, "height")
         /\ BoxTouched(ex, ey,
                       k * Min(shape.x, shape.x + shape.width),
                       k * Max(shape.x, shape.x + shape.width),
                       k * Min(shape.y, shape.y + shape.height),
                       k * Max(shape.y, shape.y + shape.height), k * r)
    [] shape.type = "circle" ->
         /\ Truthy(shape, "radius")
         /\ RootLeSum((ex - k * shape.x) * (ex - k * shape.x)
                        + (ey - k * shape.y) * (ey - k * shape.y),
                      k * r, k * k * shape.radius)
    [] shape.type = "line" ->
         /\ Defined(shape, "endX") /\ Defined(shape, "endY")
         /\ distanceToLineSegmentLe(ex, ey, k * shape.x, k * shape.y,
                                    k * shape.endX, k * shape.endY, k * r)
    [] shape.type = "triangle" ->
         /\ Truthy(shape, "width") /\ Truthy(shape, "height")
         /\ LET x1 == k * (2 * shape.x + shape.width)
                y1 == 2 * k * shape.y
                x2 == 2 * k * shape.x
                y2 == 2 * k * (shape.y + shape.height)
                x3 == 2 * k * (shape.x + shape.width)
                y3 == 2 * k * (shape.y + shape.height)
            IN  \/ isPointInTriangle(2 * ex, 2 * ey, x1, y1, x2, y2, x3, y3)
                \/ distanceToLineSegmentLe(2 * ex, 2 * ey, x1, y1, x2, y2, 2 * k * r)
                \/ distanceToLineSegmentLe(2 * ex, 2 * ey, x2, y2, x3, y3, 2 * k * r)
                \/ distanceToLineSegmentLe(2 * ex, 2 * ey, x3, y3, x1, y1, 2 * k * r)
    [] OTHER -> FALSE

\* getEraserSize: sizes[eraserSize - 1] || 20
getEraserSize(size) ==
  CASE size = 1 -> 10 [] size = 2 -> 20 [] size = 3 -> 40 [] size = 4 -> 80
    [] OTHER -> 20

steps == 5

\* the shape is touched by one of the steps + 1 sample points
\* last + (cur - last) * (i / steps) of the eraser segment; a sample point
\* with integer coordinates is passed as it is, any other multiplied by steps
TouchedOnSegment(lx, ly, x, y, eraserRadius, shape) ==
  \E i \in 0..steps :
    IF ((x - lx) * i) % steps = 0 /\ ((y - ly) * i) % steps = 0
      THEN isShapeTouchedByEraser(lx + ((x - lx) * i) \div steps,
                                  ly + ((y - ly) * i) \div steps,
                                  eraserRadius, shape, 1)
      ELSE isShapeTouchedByEraser(steps * lx + (x - lx) * i,
                                  steps * ly + (y - ly) * i,
                                  eraserRadius, shape, steps)

\* shapesToDelete of draw(): ids of the touched shapes, in scene order,
\* each id once
RECURSIVE Dedup(_)
Dedup(ids) ==
  IF ids = << >> THEN << >>
  ELSE LET init == Dedup(SubSeq(ids, 1, Len(ids) - 1))
           x == ids[Len(ids)]
       IN  IF \E j \in 1..Len(init) : init[j] = x THEN init ELSE Append(init, x)

shapesToDelete(shps, lx, ly, x, y, eraserRadius) ==
  LET touched == SelectSeq(shps,
                   LAMBDA sh : TouchedOnSegment(lx, ly, x, y, eraserRadius, sh))
  IN  Dedup([i \in 1..Len(touched) |-> touched[i].id])

\* mutant: the filter dropping every shape once anything is erased
DeleteShapes_all(shps, ids) == << >>

\* prev => prev.filter(shape => !shapesToDelete.includes(shape.id))
DeleteShapes(shps, ids) ==
  SelectSeq(shps, LAMBDA sh : ~(\E j \in 1..Len(ids) : ids[j] = sh.id))

(***************************************************************************)
(* Inputs of the model.                                                    *)
(***************************************************************************)
Rooms == {"roomA", "roomB"}
RemoteUser == "bob"

\* a shape drawn by the remote participant
RemoteRect ==
  [id |-> "shape-r1", type |-> "rectangle", x |-> 10, y |-> 10,
   color |-> "#ff0000", size |-> 3, username |-> RemoteUser,
   width |-> 30, height |-> 20]

DrawPoint(p, color, size) == [x |-> p[1], y |-> p[2], color |-> color, size |-> size]

\* a 2-point pen segment
RemoteSegments_pen ==
  << DrawPoint(Pt(10, 10), "#ff0000", 3), DrawPoint(Pt(40, 30), "#ff0000", 3) >>

\* the 2-point segments a remote pen / eraser pointer-move broadcasts
RemoteSegments ==
  { << DrawPoint(Pt(10, 10), c, 3), DrawPoint(Pt(40, 30), c, 3) >> :
      c \in {"#ff0000", "eraser"} }

\* updates a peer running this code sends for shape `id`: a drag step
\* ({x, y}) of any shape, a resize step (all fields) of a shape it holds
RemoteUpdates(id) ==
  { [x |-> UpPoint[1], y |-> UpPoint[2]] }
    \cup (IF id = RemoteRect.id
            THEN { [RemoteRect EXCEPT !.width = 5] }
            ELSE { })

\* the originating username the relay stamps on a message: the remote
\* participant, or the local user when the relay echoes a message back
Senders == {RemoteUser, username}

\* the shape messages the relay can deliver in the current state; an
\* addShape carries a new remote shape or one the scene already holds
\* (a redelivery, or the echo of a local addShape) and originates from
\* the shape's creator
ShapeMessages ==
       { [type |-> "addShape", username |-> sh.username, shapeId |-> sh.id,
          shape |-> sh] :
           sh \in {RemoteRect} \cup { shapes[i] : i \in 1..Len(shapes) } }
  \cup UNION { { [type |-> "updateShape", username |-> u, shapeId |-> id,
                  updates |-> upd] : u \in Senders, upd \in RemoteUpdates(id) } :
               id \in Ids }
  \cup { [type |-> "deleteShape", username |-> u, shapeId |-> id] :
           u \in Senders, id \in Ids }
  \cup { [type |-> "clear", username |-> u] : u \in Senders }

\* the ink and presence messages the relay can deliver
InkMessages ==
       { [type |-> "draw", username |-> u, points |-> pts] :
           u \in Senders, pts \in RemoteSegments }
  \cup { [type |-> "cursor", username |-> u, x |-> 10, y |-> 10,
          isDrawing |-> d] : u \in Senders, d \in BOOLEAN }
  \cup { [type |-> "clear", username |-> u] : u \in Senders }

\* the two-client relay of SpecRelay is not running
RelayIdle ==
  /\ peerShapes = << >>
  /\ net = {}
  /\ applied = << >>
  /\ stamp = 0

(***************************************************************************)
(* Initial state: the App component after its first render and mount       *)
(* effect (connectWebSocket has created the socket, still CONNECTING).     *)
(***************************************************************************)
Init ==
  /\ view = "login"
  /\ username = ""
  /\ currentRoom = Null
  /\ readyState = "CONNECTING"
  /\ drawingMode = "pen"
  /\ eraserSize = 2
  /\ shapes = << >>
  /\ strokes = << >>
  /\ eraserStrokes = << >>
  /\ selectedShapeId = Null
  /\ isDrawing = FALSE
  /\ isDrawingShape = FALSE
  /\ shapeStart = NoPoint
  /\ dragOffset = NoPoint
  /\ resizeHandle = Null
  /\ editingText = << >>
  /\ editingTextId = Null
  /\ currentStroke = << >>
  /\ currentEraserStroke = << >>
  /\ lastPoint = NoPoint
  /\ userCursors = << >>
  /\ idClock = 0
  /\ last = [op |-> "mount"]
  /\ out = << >>
  /\ RelayIdle

sessionVars == << view, username, currentRoom, readyState >>
toolVars == << drawingMode, eraserSize >>
sceneVars == << shapes, strokes, eraserStrokes >>
pointerVars == << isDrawing, isDrawingShape, shapeStart, dragOffset,
                  resizeHandle, currentStroke, currentEraserStroke, lastPoint >>
textVars == << editingText, editingTextId >>

(***************************************************************************)
(* Socket life cycle and session.                                          *)
(***************************************************************************)
\* ws.onopen
WsOnOpen ==
  /\ readyState = "CONNECTING"
  /\ readyState' = "OPEN"
  /\ UNCHANGED relayVars
  /\ last' = [op |-> "onopen"]
  /\ out' = << >>
  /\ UNCHANGED << view, username, currentRoom, toolVars, sceneVars,
                  selectedShapeId, pointerVars, textVars, userCursors, idClock >>

\* ws.onclose (the socket is never re-created)
WsOnClose ==
  /\ readyState = "OPEN"
  /\ readyState' = "CLOSED"
  /\ UNCHANGED relayVars
  /\ last' = [op |-> "onclose"]
  /\ out' = << >>
  /\ UNCHANGED << view, username, currentRoom, toolVars, sceneVars,
                  selectedShapeId, pointerVars, textVars, userCursors, idClock >>

\* handleLogin(name, password, false) with the REST login succeeding
HandleLogin(name) ==
  /\ view = "login"
  /\ username' = name
  /\ view' = "roomList"
  /\ UNCHANGED relayVars
  /\ last' = [op |-> "handleLogin", name |-> name]
  /\ out' = sendMessage(<< [type |-> "setUsername", username |-> name] >>)
  /\ UNCHANGED << currentRoom, readyState, toolVars, sceneVars,
                  selectedShapeId, pointerVars, textVars, userCursors, idClock >>

\* handleLeaveRoom
HandleLeaveRoom ==
  /\ view = "whiteboard"
  /\ currentRoom # Null
  /\ out' = sendMessage(<< [type |-> "leaveRoom", roomId |-> currentRoom] >>)
  /\ currentRoom' = Null
  /\ view' = "roomList"
  /\ userCursors' = << >>
  /\ UNCHANGED relayVars
  /\ last' = [op |-> "handleLeaveRoom"]
  /\ UNCHANGED << username, readyState, toolVars, sceneVars, selectedShapeId,
                  pointerVars, textVars, idClock >>

(***************************************************************************)
(* handleWebSocketMessage, one action per case of the switch.              *)
(***************************************************************************)
Has(message, f) == f \in DOMAIN message

\* case 'roomCreated' / 'roomJoined': setCurrentRoom, setView, clearCanvas
OnRoomJoined(message) ==
  /\ readyState = "OPEN"
  /\ view = "roomList"
  /\ message.type \in {"roomCreated", "roomJoined"}
  /\ Has(message, "roomId") /\ Has(message, "roomName")
  /\ currentRoom' = message.roomId
  /\ view' = "whiteboard"
  /\ strokes' = << >>
  /\ eraserStrokes' = << >>
  /\ UNCHANGED relayVars
  /\ last' = [op |-> "onmessage", message |-> message]
  /\ out' = << >>
  /\ UNCHANGED << username, readyState, toolVars, shapes, selectedShapeId,
                  pointerVars, textVars, userCursors, idClock >>

\* mutant: case 'draw' merging the points into the last record of the list
OnDraw_merge(message) ==
  /\ message.type = "draw"
  /\ IF message.username # HandlerUsername /\ Has(message, "points")
       THEN IF Len(message.points) > 0 /\ message.points[1].color = "eraser"
              THEN /\ eraserStrokes' =
                        IF eraserStrokes = << >>
                          THEN << [points |-> message.points] >>
                          ELSE [eraserStrokes EXCEPT ![Len(eraserStrokes)].points
                                                       = @ \o message.points]
                   /\ UNCHANGED strokes
              ELSE /\ strokes' =
                        IF strokes = << >>
                          THEN << [points |-> message.points] >>
                          ELSE [strokes EXCEPT ![Len(strokes)].points
                                                 = @ \o message.points]
                   /\ UNCHANGED eraserStrokes
       ELSE UNCHANGED << strokes, eraserStrokes >>
  /\ UNCHANGED << shapes, selectedShapeId, userCursors >>

\* mutant: case 'draw' storing { points: message.points || [] } whether or
\* not the message carries points
OnDraw_unguarded(message) ==
  /\ message.type = "draw"
  /\ Len(strokes) < MaxStrokes
  /\ strokes' = Append(strokes,
                  [points |-> IF Has(message, "points") THEN message.points
                              ELSE << >>])
  /\ UNCHANGED << eraserStrokes, shapes, selectedShapeId, userCursors >>

\* case 'draw'
OnDraw(message) ==
  /\ message.type = "draw"
  /\ IF message.username # HandlerUsername /\ Has(message, "points")
       THEN IF Len(message.points) > 0 /\ message.points[1].color = "eraser"
              THEN /\ Len(eraserStrokes) < MaxStrokes
                   /\ eraserStrokes' =
                        Append(eraserStrokes, [points |-> message.points])
                   /\ UNCHANGED strokes
              ELSE /\ Len(strokes) < MaxStrokes
                   /\ strokes' = Append(strokes, [points |-> message.points])
                   /\ UNCHANGED eraserStrokes
       ELSE UNCHANGED << strokes, eraserStrokes >>
  /\ UNCHANGED << shapes, selectedShapeId, userCursors >>

\* case 'addShape'
OnAddShape(message) ==
  /\ message.type = "addShape"
  /\ IF Has(message, "shape")
       THEN /\ Len(shapes) < MaxShapes
            /\ shapes' = AppendShape(shapes, message.shape)
       ELSE UNCHANGED shapes
  /\ UNCHANGED << strokes, eraserStrokes, selectedShapeId, userCursors >>

\* case 'updateShape'
OnUpdateShape(message) ==
  /\ message.type = "updateShape"
  /\ IF Has(message, "shapeId") /\ message.shapeId # "" /\ Has(message, "updates")
       THEN shapes' = UpdateShape(shapes, message.shapeId, message.updates)
       ELSE UNCHANGED shapes
  /\ UNCHANGED << strokes, eraserStrokes, selectedShapeId, userCursors >>

\* case 'deleteShape'
OnDeleteShape(message) ==
  /\ message.type = "deleteShape"
  /\ IF Has(message, "shapeId") /\ message.shapeId # ""
       THEN shapes' = DeleteShape(shapes, message.shapeId)
       ELSE UNCHANGED shapes
  /\ UNCHANGED << strokes, eraserStrokes, selectedShapeId, userCursors >>

\* newCursors.set(username, {x, y, username, isDrawing})
SetCursor(cursors, message) ==
  [u \in (DOMAIN cursors) \cup {message.username} |->
     IF u = message.username
       THEN [x |-> message.x, y |-> message.y, username |-> message.username,
             isDrawing |-> Has(message, "isDrawing") /\ message.isDrawing]
       ELSE cursors[u]]

\* case 'cursor'
OnCursor(message) ==
  /\ message.type = "cursor"
  /\ IF /\ Has(message, "username") /\ message.username # ""
        /\ message.username # HandlerUsername
        /\ Has(message, "x") /\ Has(message, "y")
       THEN userCursors' = SetCursor(userCursors, message)
       ELSE UNCHANGED userCursors
  /\ UNCHANGED << shapes, strokes, eraserStrokes, selectedShapeId >>

\* mutant: case 'clear' without clearCanvas()
OnClear_shapesOnly(message) ==
  /\ message.type = "clear"
  /\ shapes' = << >>
  /\ selectedShapeId' = Null
  /\ UNCHANGED << strokes, eraserStrokes, userCursors >>

\* case 'clear': clearCanvas(); setShapes([]); setSelectedShapeId(null)
OnClear(message) ==
  /\ message.type = "clear"
  /\ strokes' = << >>
  /\ eraserStrokes' = << >>
  /\ shapes' = << >>
  /\ selectedShapeId' = Null
  /\ UNCHANGED userCursors

\* the message types whose case is modelled by an action of its own
HandledTypes == {"roomCreated", "roomJoined", "draw", "addShape", "updateShape",
                 "deleteShape", "cursor", "clear"}

\* any other type: no case of the switch touches the scene
OnOther(message) ==
  /\ message.type \notin HandledTypes
  /\ UNCHANGED << sceneVars, selectedShapeId, userCursors >>

\* ws.onmessage for a scene or presence message
OnSceneMessage(message) ==
  /\ readyState = "OPEN"
  /\ view # "login"
  /\ \/ OnDraw(message)
     \/ OnAddShape(message)
     \/ OnUpdateShape(message)
     \/ OnDeleteShape(message)
     \/ OnCursor(message)
     \/ OnClear(message)
     \/ OnOther(message)
  /\ UNCHANGED relayVars
  /\ last' = [op |-> "onmessage", message |-> message]
  /\ out' = << >>
  /\ UNCHANGED << sessionVars, toolVars, pointerVars, textVars, idClock >>

\* ws.onmessage with a frame that is not valid JSON: JSON.parse throws, the
\* catch logs the error and handleWebSocketMessage is not called
OnParseError ==
  /\ readyState = "OPEN"
  /\ UNCHANGED relayVars
  /\ last' = [op |-> "onparseerror"]
  /\ out' = << >>
  /\ UNCHANGED << sessionVars, toolVars, sceneVars, selectedShapeId, pointerVars,
                  textVars, userCursors, idClock >>

(***************************************************************************)
(* Toolbar.                                                                *)
(***************************************************************************)
DrawingModes == {"pen", "eraser", "select", "rectangle", "circle", "line",
                 "triangle", "fill", "text"}
ShapeModes == {"rectangle", "circle", "line", "triangle"}

\* onDrawingModeChange.  The toolbar is outside the canvas: the pointer has
\* left the canvas (mouseleave -> stopDrawing) before a tool is clicked.
SetDrawingMode(mode) ==
  /\ view = "whiteboard"
  /\ ~isDrawing /\ ~isDrawingShape
  /\ mode # drawingMode
  /\ drawingMode' = mode
  /\ UNCHANGED relayVars
  /\ last' = [op |-> "setDrawingMode", mode |-> mode]
  /\ out' = << >>
  /\ UNCHANGED << sessionVars, eraserSize, sceneVars, selectedShapeId,
                  pointerVars, textVars, userCursors, idClock >>

\* the eraser size buttons (shown in eraser mode): onEraserSizeChange(size)
EraserSizes == 1..4

SetEraserSize(size) ==
  /\ view = "whiteboard"
  /\ drawingMode = "eraser"
  /\ size # eraserSize
  /\ eraserSize' = size
  /\ UNCHANGED relayVars
  /\ last' = [op |-> "setEraserSize", size |-> size]
  /\ out' = << >>
  /\ UNCHANGED << sessionVars, drawingMode, sceneVars, selectedShapeId,
                  pointerVars, textVars, userCursors, idClock >>

\* handleClearClick
HandleClearClick ==
  /\ view = "whiteboard"
  /\ currentRoom # Null
  /\ strokes' = << >>
  /\ eraserStrokes' = << >>
  /\ shapes' = << >>
  /\ selectedShapeId' = Null
  /\ UNCHANGED relayVars
  /\ last' = [op |-> "handleClearClick"]
  /\ out' = sendMessage(<< [type |-> "clear", roomId |-> currentRoom] >>)
  /\ UNCHANGED << sessionVars, toolVars, pointerVars, textVars, userCursors,
                  idClock >>

(***************************************************************************)
(* startDrawing (mousedown), one action per tool branch.                   *)
(***************************************************************************)
StartPen(x, y) ==
  /\ drawingMode = "pen"
  /\ isDrawing' = TRUE
  /\ lastPoint' = Pt(x, y)
  /\ currentStroke' = << DrawPoint(Pt(x, y), InitialBrushColor, InitialBrushSize) >>
  /\ out' = << >>
  /\ UNCHANGED << shapes, selectedShapeId, isDrawingShape, shapeStart,
                  dragOffset, resizeHandle, currentEraserStroke, textVars,
                  idClock >>

StartEraser(x, y) ==
  /\ drawingMode = "eraser"
  /\ isDrawing' = TRUE
  /\ lastPoint' = Pt(x, y)
  /\ currentEraserStroke' =
       << DrawPoint(Pt(x, y), "eraser", getEraserSize(eraserSize)) >>
  /\ out' = << >>
  /\ UNCHANGED << shapes, selectedShapeId, isDrawingShape, shapeStart,
                  dragOffset, resizeHandle, currentStroke, textVars, idClock >>

StartFill(x, y) ==
  /\ drawingMode = "fill"
  /\ LET i == ClickedIndex(shapes, x, y) IN
       IF i # 0
         THEN LET clickedShape == shapes[i]
                  updatedShape == Merge(clickedShape, [fillColor |-> InitialBrushColor])
              IN  /\ shapes' = ReplaceShape(shapes, clickedShape.id, updatedShape)
                  /\ out' = sendMessage(<< [type |-> "updateShape",
                                            roomId |-> currentRoom,
                                            shapeId |-> clickedShape.id,
                                            updates |-> updatedShape] >>)
         ELSE UNCHANGED shapes /\ out' = << >>
  /\ UNCHANGED << selectedShapeId, pointerVars, textVars, idClock >>

StartSelect(x, y) ==
  /\ drawingMode = "select"
  /\ LET i == ClickedIndex(shapes, x, y) IN
       IF i # 0
         THEN LET clickedShape == shapes[i]
                  handle == getResizeHandle(clickedShape, x, y)
              IN  /\ selectedShapeId' = clickedShape.id
                  /\ IF handle # Null
                       THEN resizeHandle' = handle /\ UNCHANGED dragOffset
                       ELSE /\ dragOffset' = Pt(x - clickedShape.x, y - clickedShape.y)
                            /\ UNCHANGED resizeHandle
                  /\ isDrawing' = TRUE
         ELSE /\ selectedShapeId' = Null
              /\ UNCHANGED << isDrawing, dragOffset, resizeHandle >>
  /\ out' = << >>
  /\ UNCHANGED << shapes, isDrawingShape, shapeStart, currentStroke,
                  currentEraserStroke, lastPoint, textVars, idClock >>

StartShape(x, y) ==
  /\ drawingMode \in ShapeModes
  /\ isDrawingShape' = TRUE
  /\ shapeStart' = Pt(x, y)
  /\ out' = << >>
  /\ UNCHANGED << shapes, selectedShapeId, isDrawing, dragOffset, resizeHandle,
                  currentStroke, currentEraserStroke, lastPoint, textVars,
                  idClock >>

StartText(x, y) ==
  /\ drawingMode = "text"
  /\ idClock < MaxLocalIds
  /\ Len(shapes) < MaxShapes
  /\ LET shapeId == generateShapeId(idClock + 1)
         newShape == [id |-> shapeId, type |-> "text", x |-> x, y |-> y,
                      color |-> InitialBrushColor, size |-> InitialBrushSize,
                      username |-> username, text |-> << >>,
                      fontSize |-> TextFontSize]
     IN  /\ shapes' = AppendShape(shapes, newShape)
         /\ editingTextId' = shapeId
         /\ editingText' = << >>
         /\ out' = sendMessage(<< [type |-> "addShape", roomId |-> currentRoom,
                                   shapeId |-> shapeId, shape |-> newShape] >>)
  /\ idClock' = idClock + 1
  /\ UNCHANGED << selectedShapeId, pointerVars >>

StartDrawing(x, y) ==
  /\ view = "whiteboard"
  /\ currentRoom # Null
  /\ \/ StartPen(x, y)
     \/ StartEraser(x, y)
     \/ StartFill(x, y)
     \/ StartSelect(x, y)
     \/ StartShape(x, y)
     \/ StartText(x, y)
  /\ UNCHANGED relayVars
  /\ last' = [op |-> "startDrawing", x |-> x, y |-> y]
  /\ UNCHANGED << sessionVars, toolVars, strokes, eraserStrokes, userCursors >>

(***************************************************************************)
(* handleMouseMove (mousemove): cursor broadcast, then draw / resize /     *)
(* drag / preview.                                                         *)
(***************************************************************************)
CursorMessage(x, y) ==
  [type |-> "cursor", roomId |-> currentRoom, x |-> x, y |-> y,
   isDrawing |-> isDrawing]

\* resizeHandle.includes(c)
HandleIncludes(handle, c) ==
  CASE handle = "tl" -> c \in {"t", "l"}
    [] handle = "tr" -> c \in {"t", "r"}
    [] handle = "bl" -> c \in {"b", "l"}
    [] handle = "br" -> c \in {"b", "r"}
    [] handle = "start" -> c \in {"s", "t", "a", "r"}
    [] handle = "end" -> c \in {"e", "n", "d"}
    [] OTHER -> c = handle

\* mutant: the right and bottom handles measure the cursor from the old
\* right / bottom edge instead of from the origin of the rectangle
ResizeRectangle_fromEdge(shape, handle, x, y) ==
  LET s2 == IF HandleIncludes(handle, "b")
              THEN [shape EXCEPT !.height = Max(5, y - (shape.y + shape.height))]
              ELSE shape
      s4 == IF HandleIncludes(handle, "r")
              THEN [s2 EXCEPT !.width = Max(5, x - (shape.x + shape.width))]
              ELSE s2
  IN  s4

\* the rectangle branch of the resize: the four ifs in program order
ResizeRectangle(shape, handle, x, y) ==
  LET newHeight == (shape.y + shape.height) - y
      newWidth == (shape.x + shape.width) - x
      s1 == IF HandleIncludes(handle, "t") /\ newHeight > 5
              THEN [shape EXCEPT !.y = y, !.height = newHeight] ELSE shape
      s2 == IF HandleIncludes(handle, "b")
              THEN [s1 EXCEPT !.height = Max(5, y - shape.y)] ELSE s1
      s3 == IF HandleIncludes(handle, "l") /\ newWidth > 5
              THEN [s2 EXCEPT !.x = x, !.width = newWidth] ELSE s2
      s4 == IF HandleIncludes(handle, "r")
              THEN [s3 EXCEPT !.width = Max(5, x - shape.x)] ELSE s3
  IN  s4

\* updatedShape of the resize branch
ResizeShape(shape, handle, x, y) ==
  IF shape.type = "rectangle" /\ Truthy(shape, "width") /\ Truthy(shape, "height")
    THEN ResizeRectangle(shape, handle, x, y)
  ELSE IF shape.type = "circle" /\ Truthy(shape, "radius")
    THEN [shape EXCEPT !.radius =
            Max(5 * 5, (x - shape.x) * (x - shape.x) + (y - shape.y) * (y - shape.y))]
  ELSE IF shape.type = "line" /\ Defined(shape, "endX") /\ Defined(shape, "endY")
    THEN IF handle = "start" THEN [shape EXCEPT !.x = x, !.y = y]
         ELSE IF handle = "end" THEN [shape EXCEPT !.endX = x, !.endY = y]
         ELSE shape
  ELSE IF shape.type = "triangle" /\ Truthy(shape, "width") /\ Truthy(shape, "height")
    THEN [shape EXCEPT
            !.width = Max(10, Abs(2 * x - 2 * shape.x - shape.width)),
            !.height = Max(10, Abs(2 * y - 2 * shape.y - shape.height))]
  ELSE shape

\* the drag step: prev.map(s => s.id === id ? {...s, x: newX, y: newY} : s)
DragShape(shps, id, newX, newY) == UpdateShape(shps, id, [x |-> newX, y |-> newY])

\* draw(e), eraser branch
MoveEraser(x, y) ==
  /\ drawingMode = "eraser" /\ isDrawing /\ lastPoint # NoPoint
  /\ Len(currentEraserStroke) + 2 <= MaxStrokePoints
  /\ LET eraserWidth == getEraserSize(eraserSize)
         toDelete == shapesToDelete(shapes, lastPoint[1], lastPoint[2], x, y,
                                    eraserWidth \div 2)
         points == << DrawPoint(lastPoint, "eraser", eraserWidth),
                      DrawPoint(Pt(x, y), "eraser", eraserWidth) >>
     IN  /\ shapes' = IF Len(toDelete) > 0 THEN DeleteShapes(shapes, toDelete)
                      ELSE shapes
         /\ currentEraserStroke' = currentEraserStroke \o points
         /\ out' = sendMessage(
              << CursorMessage(x, y) >>
              \o [i \in 1..Len(toDelete) |->
                    [type |-> "deleteShape", roomId |-> currentRoom,
                     shapeId |-> toDelete[i]]]
              \o << [type |-> "draw", roomId |-> currentRoom, points |-> points] >>)
  /\ lastPoint' = Pt(x, y)
  /\ UNCHANGED currentStroke

\* mutant: draw(e), pen branch, keeping only the last segment in the buffer
MovePen_lastSegment(x, y) ==
  /\ drawingMode = "pen" /\ isDrawing /\ lastPoint # NoPoint
  /\ Len(currentStroke) + 2 <= MaxStrokePoints
  /\ LET points == << DrawPoint(lastPoint, InitialBrushColor, InitialBrushSize),
                      DrawPoint(Pt(x, y), InitialBrushColor, InitialBrushSize) >>
     IN  /\ currentStroke' = points
         /\ out' = sendMessage(
              << CursorMessage(x, y),
                 [type |-> "draw", roomId |-> currentRoom, points |-> points] >>)
  /\ lastPoint' = Pt(x, y)
  /\ UNCHANGED << shapes, currentEraserStroke >>

\* draw(e), pen branch
MovePen(x, y) ==
  /\ drawingMode = "pen" /\ isDrawing /\ lastPoint # NoPoint
  /\ Len(currentStroke) + 2 <= MaxStrokePoints
  /\ LET points == << DrawPoint(lastPoint, InitialBrushColor, InitialBrushSize),
                      DrawPoint(Pt(x, y), InitialBrushColor, InitialBrushSize) >>
     IN  /\ currentStroke' = currentStroke \o points
         /\ out' = sendMessage(
              << CursorMessage(x, y),
                 [type |-> "draw", roomId |-> currentRoom, points |-> points] >>)
  /\ lastPoint' = Pt(x, y)
  /\ UNCHANGED << shapes, currentEraserStroke >>

\* select mode with a selection: resize or drag
MoveSelection(x, y) ==
  /\ ~(drawingMode \in {"pen", "eraser"} /\ isDrawing /\ lastPoint # NoPoint)
  /\ drawingMode = "select" /\ isDrawing /\ selectedShapeId # Null
  /\ LET shape == FindShape(shapes, selectedShapeId) IN
       IF ~HasId(shapes, selectedShapeId)
         THEN UNCHANGED shapes /\ out' = sendMessage(<< CursorMessage(x, y) >>)
       ELSE IF resizeHandle # Null
         THEN LET updatedShape == ResizeShape(shape, resizeHandle, x, y) IN
              /\ shapes' = ReplaceShape(shapes, selectedShapeId, updatedShape)
              /\ out' = sendMessage(
                   << CursorMessage(x, y),
                      [type |-> "updateShape", roomId |-> currentRoom,
                       shapeId |-> selectedShapeId, updates |-> updatedShape] >>)
       ELSE IF dragOffset # NoPoint
         THEN LET newX == x - dragOffset[1]
                  newY == y - dragOffset[2]
              IN  /\ shapes' = DragShape(shapes, selectedShapeId, newX, newY)
                  /\ out' = sendMessage(
                       << CursorMessage(x, y),
                          [type |-> "updateShape", roomId |-> currentRoom,
                           shapeId |-> selectedShapeId,
                           updates |-> [x |-> newX, y |-> newY]] >>)
       ELSE UNCHANGED shapes /\ out' = sendMessage(<< CursorMessage(x, y) >>)
  /\ UNCHANGED << currentStroke, currentEraserStroke, lastPoint >>

\* shape preview (drawShapePreview paints the canvas only) or no branch
MoveOther(x, y) ==
  /\ ~(drawingMode \in {"pen", "eraser"} /\ isDrawing /\ lastPoint # NoPoint)
  /\ ~(drawingMode = "select" /\ isDrawing /\ selectedShapeId # Null)
  /\ out' = sendMessage(<< CursorMessage(x, y) >>)
  /\ UNCHANGED << shapes, currentStroke, currentEraserStroke, lastPoint >>

HandleMouseMove(x, y) ==
  /\ view = "whiteboard"
  /\ currentRoom # Null
  /\ \/ MoveEraser(x, y)
     \/ MovePen(x, y)
     \/ MoveSelection(x, y)
     \/ MoveOther(x, y)
  /\ UNCHANGED relayVars
  /\ last' = [op |-> "handleMouseMove", x |-> x, y |-> y]
  /\ UNCHANGED << sessionVars, toolVars, strokes, eraserStrokes,
                  selectedShapeId, isDrawing, isDrawingShape, shapeStart,
                  dragOffset, resizeHandle, textVars, userCursors, idClock >>

(***************************************************************************)
(* stopDrawing (mouseup and mouseleave); (x, y) is the pointer position of *)
(* window.event.                                                           *)
(***************************************************************************)
\* mutant: newShape of stopDrawing with unsigned width and height
NewShape_unsigned(shapeId, mode, start, currentX, currentY, user) ==
  LET base == [id |-> shapeId, type |-> mode, x |-> start[1], y |-> start[2],
               color |-> InitialBrushColor, size |-> InitialBrushSize,
               username |-> user]
      w == currentX - start[1]
      h == currentY - start[2]
  IN  IF mode \in {"rectangle", "triangle"}
        THEN Merge(base, [width |-> Abs(w), height |-> Abs(h)])
      ELSE IF mode = "circle"
        THEN Merge(base, [radius |-> w * w + h * h])
      ELSE IF mode = "line"
        THEN Merge(base, [endX |-> currentX, endY |-> currentY])
      ELSE base

\* newShape of stopDrawing
NewShape(shapeId, mode, start, currentX, currentY, user) ==
  LET base == [id |-> shapeId, type |-> mode, x |-> start[1], y |-> start[2],
               color |-> InitialBrushColor, size |-> InitialBrushSize,
               username |-> user]
      w == currentX - start[1]
      h == currentY - start[2]
  IN  IF mode \in {"rectangle", "triangle"}
        THEN Merge(base, [width |-> w, height |-> h])
      ELSE IF mode = "circle"
        THEN Merge(base, [radius |-> w * w + h * h])
      ELSE IF mode = "line"
        THEN Merge(base, [endX |-> currentX, endY |-> currentY])
      ELSE base

StopDrawing(x, y) ==
  /\ view = "whiteboard"
  /\ LET savePen == isDrawing /\ drawingMode = "pen" /\ currentStroke # << >>
         saveEraser == isDrawing /\ drawingMode = "eraser"
                         /\ currentEraserStroke # << >>
         commit == isDrawingShape /\ shapeStart # NoPoint /\ currentRoom # Null
     IN  /\ IF savePen
              THEN /\ Len(strokes) < MaxStrokes
                   /\ strokes' = Append(strokes, [points |-> currentStroke])
                   /\ currentStroke' = << >>
              ELSE UNCHANGED << strokes, currentStroke >>
         /\ IF saveEraser
              THEN /\ Len(eraserStrokes) < MaxStrokes
                   /\ eraserStrokes' =
                        Append(eraserStrokes, [points |-> currentEraserStroke])
                   /\ currentEraserStroke' = << >>
              ELSE UNCHANGED << eraserStrokes, currentEraserStroke >>
         /\ IF commit
              THEN /\ idClock < MaxLocalIds
                   /\ Len(shapes) < MaxShapes
                   /\ LET shapeId == generateShapeId(idClock + 1)
                          newShape == NewShape(shapeId, drawingMode, shapeStart,
                                               x, y, username)
                      IN  /\ shapes' = AppendShape(shapes, newShape)
                          /\ out' = sendMessage(
                               << [type |-> "addShape", roomId |-> currentRoom,
                                   shapeId |-> shapeId, shape |-> newShape] >>)
                   /\ idClock' = idClock + 1
                   /\ isDrawingShape' = FALSE
                   /\ shapeStart' = NoPoint
              ELSE /\ out' = << >>
                   /\ UNCHANGED << shapes, idClock, isDrawingShape, shapeStart >>
  /\ isDrawing' = FALSE
  /\ dragOffset' = NoPoint
  /\ resizeHandle' = Null
  /\ lastPoint' = NoPoint
  /\ UNCHANGED relayVars
  /\ last' = IF isDrawingShape /\ shapeStart # NoPoint /\ currentRoom # Null
               THEN [op |-> "stopDrawing", x |-> x, y |-> y]
               ELSE [op |-> "stopDrawing"]
  /\ UNCHANGED << sessionVars, toolVars, selectedShapeId, textVars, userCursors >>

(***************************************************************************)
(* Touch: handleTouchStart, handleTouchMove, handleTouchEnd.  The canvas   *)
(* registers onTouchStart, onTouchMove and onTouchEnd and no listener for  *)
(* touchcancel.                                                            *)
(***************************************************************************)
HandleTouchStart(x, y) ==
  /\ view = "whiteboard"
  /\ isDrawing' = TRUE
  /\ lastPoint' = Pt(x, y)
  /\ IF drawingMode = "pen"
       THEN /\ currentStroke' =
                 << DrawPoint(Pt(x, y), InitialBrushColor, InitialBrushSize) >>
            /\ UNCHANGED currentEraserStroke
     ELSE IF drawingMode = "eraser"
       THEN /\ currentEraserStroke' =
                 << DrawPoint(Pt(x, y), "eraser", getEraserSize(eraserSize)) >>
            /\ UNCHANGED currentStroke
     ELSE UNCHANGED << currentStroke, currentEraserStroke >>
  /\ UNCHANGED relayVars
  /\ last' = [op |-> "handleTouchStart", x |-> x, y |-> y]
  /\ out' = << >>
  /\ UNCHANGED << sessionVars, toolVars, sceneVars, selectedShapeId,
                  isDrawingShape, shapeStart, dragOffset, resizeHandle,
                  textVars, userCursors, idClock >>

\* the cursor message handleTouchMove sends last
TouchCursorMessage(x, y) ==
  [type |-> "cursor", roomId |-> currentRoom, x |-> x, y |-> y,
   isDrawing |-> TRUE]

HandleTouchMove(x, y) ==
  /\ view = "whiteboard"
  /\ isDrawing /\ lastPoint # NoPoint /\ currentRoom # Null
  /\ IF drawingMode = "eraser"
       THEN /\ Len(currentEraserStroke) + 2 <= MaxStrokePoints
            /\ LET eraserWidth == getEraserSize(eraserSize)
                   toDelete == shapesToDelete(shapes, lastPoint[1], lastPoint[2],
                                              x, y, eraserWidth \div 2)
                   points == << DrawPoint(lastPoint, "eraser", eraserWidth),
                                DrawPoint(Pt(x, y), "eraser", eraserWidth) >>
               IN  /\ shapes' = IF Len(toDelete) > 0
                                  THEN DeleteShapes(shapes, toDelete) ELSE shapes
                   /\ currentEraserStroke' = currentEraserStroke \o points
                   /\ out' = sendMessage(
                        [i \in 1..Len(toDelete) |->
                           [type |-> "deleteShape", roomId |-> currentRoom,
                            shapeId |-> toDelete[i]]]
                        \o << [type |-> "draw", roomId |-> currentRoom,
                               points |-> points],
                              TouchCursorMessage(x, y) >>)
            /\ UNCHANGED currentStroke
       ELSE /\ Len(currentStroke) + 2 <= MaxStrokePoints
            /\ LET points ==
                     << DrawPoint(lastPoint, InitialBrushColor, InitialBrushSize),
                        DrawPoint(Pt(x, y), InitialBrushColor, InitialBrushSize) >>
               IN  /\ currentStroke' = currentStroke \o points
                   /\ out' = sendMessage(
                        << [type |-> "draw", roomId |-> currentRoom,
                            points |-> points],
                           TouchCursorMessage(x, y) >>)
            /\ UNCHANGED << shapes, currentEraserStroke >>
  /\ lastPoint' = Pt(x, y)
  /\ UNCHANGED relayVars
  /\ last' = [op |-> "handleTouchMove", x |-> x, y |-> y]
  /\ UNCHANGED << sessionVars, toolVars, strokes, eraserStrokes,
                  selectedShapeId, isDrawing, isDrawingShape, shapeStart,
                  dragOffset, resizeHandle, textVars, userCursors, idClock >>

HandleTouchEnd ==
  /\ view = "whiteboard"
  /\ IF isDrawing /\ drawingMode = "pen" /\ currentStroke # << >>
       THEN /\ Len(strokes) < MaxStrokes
            /\ strokes' = Append(strokes, [points |-> currentStroke])
            /\ currentStroke' = << >>
       ELSE UNCHANGED << strokes, currentStroke >>
  /\ IF isDrawing /\ drawingMode = "eraser" /\ currentEraserStroke # << >>
       THEN /\ Len(eraserStrokes) < MaxStrokes
            /\ eraserStrokes' =
                 Append(eraserStrokes, [points |-> currentEraserStroke])
            /\ currentEraserStroke' = << >>
       ELSE UNCHANGED << eraserStrokes, currentEraserStroke >>
  /\ isDrawing' = FALSE
  /\ lastPoint' = NoPoint
  /\ UNCHANGED relayVars
  /\ last' = [op |-> "handleTouchEnd"]
  /\ out' = << >>
  /\ UNCHANGED << sessionVars, toolVars, shapes, selectedShapeId, isDrawingShape,
                  shapeStart, dragOffset, resizeHandle, textVars, userCursors,
                  idClock >>

\* a touchcancel event on the canvas, which the browser dispatches while a
\* touch is in progress: no listener runs
TouchCancel ==
  /\ view = "whiteboard"
  /\ last.op \in {"handleTouchStart", "handleTouchMove"}
  /\ UNCHANGED relayVars
  /\ last' = [op |-> "touchcancel"]
  /\ out' = << >>
  /\ UNCHANGED << sessionVars, toolVars, sceneVars, selectedShapeId, pointerVars,
                  textVars, userCursors, idClock >>

(***************************************************************************)
(* Keyboard: handleKeyDown and updateTextShape.                            *)
(***************************************************************************)
Keys == {"Escape", "Enter", "Backspace", "Delete"} \cup Chars

DeleteMessage(shapeId) ==
  [type |-> "deleteShape", roomId |-> currentRoom, shapeId |-> shapeId]

\* updateTextShape(newText): the shapes it leaves and the messages it sends
\* (editingTextId is non-null on every call)
updateTextShapeShapes(newText) ==
  IF currentRoom = Null THEN shapes
  ELSE UpdateShape(shapes, editingTextId, [text |-> newText])

\* updateTextShape sending only the character just typed
updateTextShapeOut_lastChar(newText) ==
  IF currentRoom = Null THEN << >>
  ELSE sendMessage(<< [type |-> "updateShape", roomId |-> currentRoom,
                       shapeId |-> editingTextId,
                       updates |-> [text |-> IF newText = << >> THEN << >>
                                             ELSE << newText[Len(newText)] >>]] >>)

updateTextShapeOut(newText) ==
  IF currentRoom = Null THEN << >>
  ELSE sendMessage(<< [type |-> "updateShape", roomId |-> currentRoom,
                       shapeId |-> editingTextId,
                       updates |-> [text |-> newText]] >>)

KeyEscape ==
  /\ editingTextId # Null
  /\ LET shape == FindShape(shapes, editingTextId) IN
       IF HasId(shapes, editingTextId) /\ ~HasText(shape)
         THEN /\ shapes' = DeleteShape(shapes, editingTextId)
              /\ out' = IF currentRoom # Null
                          THEN sendMessage(<< DeleteMessage(editingTextId) >>)
                          ELSE << >>
         ELSE UNCHANGED shapes /\ out' = << >>
  /\ editingTextId' = Null
  /\ editingText' = << >>
  /\ UNCHANGED selectedShapeId

KeyEnter ==
  /\ editingTextId # Null
  /\ IF Trim(editingText) # << >>
       THEN /\ shapes' =
                 IF HasId(shapes, editingTextId)
                   THEN ReplaceShape(shapes, editingTextId,
                          Merge(FindShape(shapes, editingTextId),
                                [text |-> Trim(editingText)]))
                   ELSE shapes
            /\ out' = << >>
       ELSE /\ shapes' = DeleteShape(shapes, editingTextId)
            /\ out' = IF currentRoom # Null
                        THEN sendMessage(<< DeleteMessage(editingTextId) >>)
                        ELSE << >>
  /\ editingTextId' = Null
  /\ editingText' = << >>
  /\ UNCHANGED selectedShapeId

KeyBackspaceText ==
  /\ editingTextId # Null
  /\ LET newText == SubSeq(editingText, 1, Len(editingText) - 1) IN
       /\ editingText' = newText
       /\ shapes' = updateTextShapeShapes(newText)
       /\ out' = updateTextShapeOut(newText)
  /\ UNCHANGED << editingTextId, selectedShapeId >>

KeyChar(key) ==
  /\ editingTextId # Null
  /\ key \in Chars
  /\ Len(editingText) < MaxText
  /\ LET newText == Append(editingText, key) IN
       /\ editingText' = newText
       /\ shapes' = updateTextShapeShapes(newText)
       /\ out' = updateTextShapeOut(newText)
  /\ UNCHANGED << editingTextId, selectedShapeId >>

\* Delete / Backspace with a selection and no text being edited
KeyDeleteSelected ==
  /\ editingTextId = Null
  /\ selectedShapeId # Null /\ currentRoom # Null
  /\ shapes' = DeleteShape(shapes, selectedShapeId)
  /\ out' = sendMessage(<< DeleteMessage(selectedShapeId) >>)
  /\ selectedShapeId' = Null
  /\ UNCHANGED textVars

HandleKeyDown(key) ==
  /\ \/ key = "Escape" /\ KeyEscape
     \/ key = "Enter" /\ KeyEnter
     \/ key = "Backspace" /\ KeyBackspaceText
     \/ KeyChar(key)
     \/ key \in {"Delete", "Backspace"} /\ KeyDeleteSelected
  /\ UNCHANGED relayVars
  /\ last' = [op |-> "handleKeyDown", key |-> key]
  /\ UNCHANGED << sessionVars, toolVars, strokes, eraserStrokes, pointerVars,
                  userCursors, idClock >>

\* boards the storage service returns to handleLoadBoard
SavedBoards ==
  { [shapes |-> << RemoteRect >>,
     strokes |-> << [points |-> RemoteSegments_pen] >>] }

\* handleLoadBoard after a successful fetch: setShapes(board.shapes),
\* setStrokes(board.strokes), then clearCanvas() whose setStrokes([]) and
\* setEraserStrokes([]) are the last updates queued; no message is sent
HandleLoadBoard(board) ==
  /\ view = "whiteboard"
  /\ shapes' = board.shapes
  /\ strokes' = << >>
  /\ eraserStrokes' = << >>
  /\ UNCHANGED relayVars
  /\ last' = [op |-> "handleLoadBoard", board |-> board]
  /\ out' = << >>
  /\ UNCHANGED << sessionVars, toolVars, selectedShapeId, pointerVars, textVars,
                  userCursors, idClock >>

(***************************************************************************)
(* InitRoom: the client logged in as alice, its socket open, in room       *)
(* roomA with an empty board (Init, then WsOnOpen, HandleLogin and         *)
(* OnRoomJoined).                                                          *)
(***************************************************************************)
InRoom ==
  /\ view = "whiteboard"
  /\ username = "alice"
  /\ currentRoom = "roomA"
  /\ readyState = "OPEN"
  /\ drawingMode = "pen"
  /\ eraserSize = 2
  /\ shapes = << >>
  /\ strokes = << >>
  /\ eraserStrokes = << >>
  /\ selectedShapeId = Null
  /\ isDrawing = FALSE
  /\ isDrawingShape = FALSE
  /\ shapeStart = NoPoint
  /\ dragOffset = NoPoint
  /\ resizeHandle = Null
  /\ editingText = << >>
  /\ editingTextId = Null
  /\ currentStroke = << >>
  /\ currentEraserStroke = << >>
  /\ lastPoint = NoPoint
  /\ userCursors = << >>
  /\ idClock = 0
  /\ last = [op |-> "onmessage",
             message |-> [type |-> "roomJoined", roomId |-> "roomA",
                          roomName |-> "roomA"]]
  /\ out = << >>

InitRoom == InRoom /\ RelayIdle

(***************************************************************************)
(* Spec: the scene under the relay's shape messages, while the local user  *)
(* creates shapes (a text placeholder, a shape committed on pointer-up),   *)
(* ends a text edit and clears the board.                                  *)
(***************************************************************************)
InkModes == {"pen", "eraser"}
CreateModes == {"rectangle", "text"}

Next ==
  \/ \E message \in ShapeMessages : OnSceneMessage(message)
  \/ \E mode \in CreateModes : SetDrawingMode(mode)
  \/ drawingMode \in CreateModes /\ StartDrawing(DownPoint[1], DownPoint[2])
  \/ StopDrawing(UpPoint[1], UpPoint[2])
  \/ \E key \in {"Escape", "Enter"} : HandleKeyDown(key)
  \/ HandleClearClick

Spec == InitRoom /\ [][Next]_vars

(***************************************************************************)
(* Properties of the scene under inbound messages (checked under Spec).    *)
(***************************************************************************)
\* the step just taken (or being taken, primed) handled an inbound message
\* of the given type
Received(l, type) == l.op = "onmessage" /\ l.message.type = type

\* C1: an inbound updateShape whose shapeId matches no shape of the scene
\* leaves the shape list as it was (same shapes, order and fields), and no
\* updateShape changes which ids the list holds, so none brings back a
\* shape that a deleteShape removed.
C1_UpdateOfUnknownIdIsNoOp ==
  [][ /\ (Received(last', "updateShape") /\ ~HasId(shapes, last'.message.shapeId))
         => shapes' = shapes
      /\ Received(last', "updateShape")
         => [i \in 1..Len(shapes') |-> shapes'[i].id]
              = [i \in 1..Len(shapes) |-> shapes[i].id]
    ]_vars

\* C1 witness: an updateShape for an id absent from a non-empty scene has
\* been processed
C1_Witness ==
  /\ Received(last, "updateShape")
  /\ ~HasId(shapes, last.message.shapeId)
  /\ shapes # << >>

\* C2: an inbound deleteShape for an id the scene does not hold leaves the
\* shape list as it was, and a deleteShape processed a second time in a row
\* changes nothing.
C2_DeleteOfUnknownIdIsNoOp ==
  [][ /\ (Received(last', "deleteShape") /\ ~HasId(shapes, last'.message.shapeId))
         => shapes' = shapes
      /\ (Received(last, "deleteShape") /\ last' = last) => shapes' = shapes
    ]_vars

\* C2 witness: a deleteShape for an id absent from a non-empty scene has
\* been processed
C2_Witness ==
  /\ Received(last, "deleteShape")
  /\ ~HasId(shapes, last.message.shapeId)
  /\ shapes # << >>

\* C3: processing the updateShape message that was processed last once
\* more leaves the shape list as the first processing left it.
C3_UpdateTwiceIsUpdateOnce ==
  [][ (Received(last, "updateShape") /\ last' = last) => shapes' = shapes ]_vars

\* C3 witness: an updateShape for a shape of the scene has been processed
\* and the shape carries the update
C3_Witness ==
  /\ Received(last, "updateShape")
  /\ \E i \in 1..Len(shapes) :
       /\ shapes[i].id = last.message.shapeId
       /\ \A f \in DOMAIN last.message.updates :
            shapes[i][f] = last.message.updates[f]
       /\ shapes[i] # RemoteRect

\* C32: an inbound updateShape(id, updates) keeps the length and order of
\* the shape list, leaves every shape with another id as it was, and in the
\* shape with that id gives every field named in updates the update's
\* value and keeps every other field (so the update processed last
\* determines every field it carries).
C32_UpdateChangesNamedFieldsOnly ==
  [][ Received(last', "updateShape")
        => LET id == last'.message.shapeId
               updates == last'.message.updates
           IN  /\ Len(shapes') = Len(shapes)
               /\ \A i \in 1..Len(shapes) :
                    IF shapes[i].id = id
                      THEN /\ DOMAIN shapes'[i]
                                = DOMAIN shapes[i] \cup DOMAIN updates
                           /\ \A f \in DOMAIN updates :
                                shapes'[i][f] = updates[f]
                           /\ \A f \in DOMAIN shapes[i] \ DOMAIN updates :
                                shapes'[i][f] = shapes[i][f]
                      ELSE shapes'[i] = shapes[i]
    ]_vars

\* C32 witness: a partial update {x, y} has moved one of two shapes of the
\* list, which keeps its other fields, and the other shape is in place
C32_Witness ==
  /\ Received(last, "updateShape")
  /\ DOMAIN last.message.updates = {"x", "y"}
  /\ Len(shapes) = 2
  /\ \E i, j \in 1..2 :
       /\ shapes[i].id = last.message.shapeId
       /\ shapes[i].x = last.message.updates.x
       /\ "type" \in DOMAIN shapes[i]
       /\ shapes[j].id # last.message.shapeId
       /\ shapes[j].x # last.message.updates.x

\* C4 (as claimed): an inbound scene message whose originating username is
\* the local username changes none of shapes, strokes, eraser strokes and
\* the presence map.
C4_EchoIsDiscarded ==
  [][ (/\ last'.op = "onmessage"
       /\ last'.message.type \in {"draw", "addShape", "updateShape",
                                  "deleteShape", "clear", "cursor"}
       /\ last'.message.username = username)
        => UNCHANGED << shapes, strokes, eraserStrokes, userCursors >> ]_vars

\* C9 (as claimed): no two shapes of the shape list have the same id.
C9_ShapeIdsAreUnique ==
  \A i, j \in 1..Len(shapes) : shapes[i].id = shapes[j].id => i = j

\* the step adds exactly one shape, `shape`, at the end of the list
AddedAtEnd(shape) ==
  /\ Len(shapes') = Len(shapes) + 1
  /\ shapes'[Len(shapes')] = shape
  /\ \A i \in 1..Len(shapes) : shapes'[i] = shapes[i]

\* C10: every addShape - an inbound addShape message, the text placeholder
\* of a pointer-down in text mode, the shape committed by a pointer-up -
\* puts the new shape after every shape already present and leaves those
\* unchanged, in their order.
C10_AddShapeAppends ==
  [][ /\ Received(last', "addShape") => AddedAtEnd(last'.message.shape)
      /\ (last'.op = "startDrawing" /\ drawingMode = "text")
           => /\ AddedAtEnd(out'[1].shape)
              /\ out'[1].shape.type = "text"
              /\ out'[1].shape.id = editingTextId'
      /\ (last'.op = "stopDrawing" /\ isDrawingShape)
           => /\ AddedAtEnd(out'[1].shape)
              /\ out'[1].shape.type = drawingMode
    ]_vars

\* C10 witness: a pointer-up has committed a shape into a scene that
\* already held one
C10_Witness ==
  /\ last.op = "stopDrawing"
  /\ Len(out) = 1 /\ out[1].type = "addShape"
  /\ Len(shapes) >= 2
  /\ shapes[Len(shapes)] = out[1].shape

(***************************************************************************)
(* SpecText: the local user places text, types, ends the edit, selects and *)
(* deletes shapes, loads a saved board and clears the board, while the     *)
(* remote participant deletes shapes.                                      *)
(***************************************************************************)
TextModes == {"text", "select"}

\* the deleteShape messages of the remote participant
RemoteDeletes ==
  { [type |-> "deleteShape", username |-> RemoteUser, shapeId |-> id] :
      id \in LocalIds }

NextText ==
  \/ \E mode \in TextModes : SetDrawingMode(mode)
  \/ drawingMode \in TextModes /\ StartDrawing(DownPoint[1], DownPoint[2])
  \/ StopDrawing(DownPoint[1], DownPoint[2])
  \/ \E key \in Keys : HandleKeyDown(key)
  \/ \E message \in RemoteDeletes : OnSceneMessage(message)
  \/ \E board \in SavedBoards : HandleLoadBoard(board)
  \/ HandleClearClick

SpecText == InitRoom /\ [][NextText]_vars

(***************************************************************************)
(* Properties of outbound messages (checked under SpecText).               *)
(***************************************************************************)
SceneMessageTypes == {"addShape", "updateShape", "deleteShape", "clear"}

\* C7 (as claimed): no handler of a local event changes the shape list or a
\* field of a shape without sending a scene message in the same handler.
C7_EveryLocalMutationIsSent ==
  [][ (last'.op # "onmessage" /\ shapes' # shapes)
        => \E i \in 1..Len(out') : out'[i].type \in SceneMessageTypes ]_vars

\* the shape list holds the edit message m carries
SceneReflects(m) ==
  CASE m.type = "addShape" ->
         \E i \in 1..Len(shapes) : shapes[i] = m.shape
    [] m.type = "updateShape" ->
         /\ HasId(shapes, m.shapeId)
         /\ \A f \in DOMAIN m.updates :
              FindShape(shapes, m.shapeId)[f] = m.updates[f]
    [] m.type = "deleteShape" -> ~HasId(shapes, m.shapeId)
    [] m.type = "clear" -> shapes = << >> /\ strokes = << >>
    [] OTHER -> TRUE

\* C8 (as claimed): when a handler has sent a message, the local scene
\* holds the edit the message carries.
C8_SceneReflectsSentEdit ==
  \A i \in 1..Len(out) : SceneReflects(out[i])

C19_EnterEscapeBackspace ==
  [][ (/\ last'.op = "handleKeyDown" /\ editingTextId # Null
       /\ HasId(shapes, editingTextId))
        => /\ last'.key = "Enter"
                => /\ editingTextId' = Null
                   /\ HasId(shapes', editingTextId)
                   /\ FindShape(shapes', editingTextId).text = editingText
           /\ last'.key = "Escape"
                => /\ editingTextId' = Null
                   /\ IF editingText = << >>
                        THEN /\ ~HasId(shapes', editingTextId)
                             /\ out' = << DeleteMessage(editingTextId) >>
                        ELSE shapes' = shapes /\ out' = << >>
           /\ last'.key = "Backspace"
                => /\ editingTextId' = editingTextId
                   /\ editingText' =
                        SubSeq(editingText, 1, Len(editingText) - 1)
    ]_vars

\* C24 (as claimed): after a successful board load returning shapes S and
\* strokes K, the shape list equals S and the stroke list equals K.
C24_LoadInstallsBoard ==
  last.op = "handleLoadBoard"
    => /\ shapes = last.board.shapes
       /\ strokes = last.board.strokes

\* the states of the interaction controller
Freehand == isDrawing /\ lastPoint # NoPoint
DraggingSelection == dragOffset # NoPoint
ResizingSelection == resizeHandle # Null
DrawingShapePreview == isDrawingShape
EditingText == editingTextId # Null

\* C33 (as claimed): the controller is in at most one of its states
\* (freehand drawing or erasing, DraggingSelection, ResizingSelection,
\* DrawingShapePreview, EditingText), and a drag offset or a resize handle
\* is set only while isDrawing is true and a shape is selected.
C33_ControllerStatesExclusive ==
  /\ \A a, b \in 1..5 :
       LET in == << Freehand, DraggingSelection, ResizingSelection,
                    DrawingShapePreview, EditingText >>
       IN  (a # b /\ in[a]) => ~in[b]
  /\ (DraggingSelection \/ ResizingSelection)
       => isDrawing /\ selectedShapeId # Null

\* C35 (as claimed): a non-null selectedShapeId is the id of a shape of the
\* shape list.
C35_SelectionIsPresent ==
  selectedShapeId # Null => HasId(shapes, selectedShapeId)

\* C36 (as claimed): a non-null editingTextId is the id of a text shape of
\* the shape list, and no updateShape is broadcast for an id the local
\* scene does not hold.
C36_EditedTextIsPresent ==
  /\ editingTextId # Null
       => \E i \in 1..Len(shapes) :
            shapes[i].id = editingTextId /\ shapes[i].type = "text"
  /\ \A k \in 1..Len(out) :
       out[k].type = "updateShape" => HasId(shapes, out[k].shapeId)

\* C37 (as claimed): while editingTextId is null the scene holds no text
\* shape of the local user whose text is empty.
C37_NoEmptyPlaceholderLeft ==
  editingTextId = Null
    => \A i \in 1..Len(shapes) :
         (shapes[i].type = "text" /\ shapes[i].username = username)
           => HasText(shapes[i])

(***************************************************************************)
(* SpecInk: the local user draws and erases with the pointer and clears    *)
(* the board, while the relay delivers ink, presence and clear messages    *)
(* and the remote participant's rectangle.                                 *)
(***************************************************************************)
RemoteRectMessage ==
  [type |-> "addShape", username |-> RemoteUser, shapeId |-> RemoteRect.id,
   shape |-> RemoteRect]

\* the ink, presence and clear messages of the remote participant
RemoteInkMessages ==
  { m \in InkMessages :
      m.username = RemoteUser /\ (m.type = "cursor" => m.isDrawing) }

NextInk ==
  \/ \E mode \in InkModes : SetDrawingMode(mode)
  \/ drawingMode \in InkModes /\ StartDrawing(DownPoint[1], DownPoint[2])
  \/ HandleMouseMove(UpPoint[1], UpPoint[2])
  \/ StopDrawing(UpPoint[1], UpPoint[2])
  \/ \E message \in RemoteInkMessages \cup {RemoteRectMessage} :
       OnSceneMessage(message)
  \/ HandleClearClick

SpecInk == InitRoom /\ [][NextInk]_vars

(***************************************************************************)
(* Properties of clear (checked under SpecInk).                            *)
(***************************************************************************)
\* C11: after a clear is applied - the clear button in a room or an
\* inbound clear message - the shape list, the stroke list and the
\* eraser-stroke list are all empty.
C11_ClearEmptiesScene ==
  (Received(last, "clear") \/ last.op = "handleClearClick")
    => shapes = << >> /\ strokes = << >> /\ eraserStrokes = << >>

\* C11 witness: an inbound clear has been applied in the middle of a local
\* pen stroke and the three lists are empty
C11_Witness ==
  /\ Received(last, "clear")
  /\ isDrawing /\ currentStroke # << >>
  /\ shapes = << >> /\ strokes = << >> /\ eraserStrokes = << >>

\* C21: a pointer-down and the pointer-moves that follow it add no record
\* to the stroke list or the eraser-stroke list and only extend the point
\* buffer of the tool in use; the pointer-up of a pen (eraser) interaction
\* appends exactly one record to the stroke list (eraser-stroke list)
\* holding the buffered points in order, and empties the buffer.
C21_StrokeCommittedOncePerInteraction ==
  [][ /\ last'.op \in {"startDrawing", "handleMouseMove"}
           => /\ strokes' = strokes
              /\ eraserStrokes' = eraserStrokes
      /\ (last'.op = "handleMouseMove" /\ isDrawing /\ drawingMode = "pen")
           => /\ Len(currentStroke') = Len(currentStroke) + 2
              /\ SubSeq(currentStroke', 1, Len(currentStroke)) = currentStroke
              /\ Pt(currentStroke'[Len(currentStroke')].x,
                    currentStroke'[Len(currentStroke')].y)
                   = Pt(last'.x, last'.y)
      /\ (last'.op = "handleMouseMove" /\ isDrawing /\ drawingMode = "eraser")
           => /\ Len(currentEraserStroke') = Len(currentEraserStroke) + 2
              /\ SubSeq(currentEraserStroke', 1, Len(currentEraserStroke))
                   = currentEraserStroke
      /\ (last'.op = "stopDrawing" /\ isDrawing /\ drawingMode = "pen")
           => /\ currentStroke # << >>
              /\ strokes' = Append(strokes, [points |-> currentStroke])
              /\ eraserStrokes' = eraserStrokes
              /\ currentStroke' = << >>
      /\ (last'.op = "stopDrawing" /\ isDrawing /\ drawingMode = "eraser")
           => /\ currentEraserStroke # << >>
              /\ eraserStrokes' =
                   Append(eraserStrokes, [points |-> currentEraserStroke])
              /\ strokes' = strokes
              /\ currentEraserStroke' = << >>
    ]_vars

\* C21 witness: a pointer-up has committed a pen stroke of three buffered
\* points (the press and one move) and the buffer is empty
C21_Witness ==
  /\ last.op = "stopDrawing" /\ drawingMode = "pen"
  /\ strokes # << >>
  /\ Len(strokes[Len(strokes)].points) = 3
  /\ strokes[Len(strokes)].points[1].x = DownPoint[1]
  /\ strokes[Len(strokes)].points[3].x = UpPoint[1]
  /\ currentStroke = << >>

\* the step applies a clear: the clear button, an inbound clear or a board
\* load (which ends in clearCanvas)
ClearStep(l) ==
  \/ l.op \in {"handleClearClick", "handleLoadBoard"}
  \/ l.op = "onmessage" /\ l.message.type = "clear"

\* the list `new` is `old` or `old` followed by one new record
AppendOnly(old, new) ==
  /\ Len(new) \in {Len(old), Len(old) + 1}
  /\ SubSeq(new, 1, Len(old)) = old

\* C22: between clears the stroke list and the eraser-stroke list are
\* append-only: a step that is not a clear leaves every record of either
\* list in place with its point sequence unchanged and adds at most one
\* new record at the end (no local stroke or inbound draw is merged into
\* an existing record).
C22_StrokeListsAreAppendOnly ==
  [][ ~ClearStep(last')
        => /\ AppendOnly(strokes, strokes')
           /\ AppendOnly(eraserStrokes, eraserStrokes') ]_vars

\* C22 witness: a record has been appended behind an existing one, by a
\* pointer-up or by an inbound draw message
C22_Witness ==
  /\ \/ last.op = "stopDrawing"
     \/ last.op = "onmessage" /\ last.message.type = "draw"
  /\ Len(strokes) = 2
  /\ strokes[1].points # strokes[2].points

\* the points of the records of a stroke list
PointsOf(list) == UNION { { list[i].points[k] : k \in 1..Len(list[i].points) } :
                          i \in 1..Len(list) }

\* C38 (as claimed): when a clear (inbound or local) has just been applied
\* in the middle of a local pen or eraser stroke, the points buffered so
\* far (all of them buffered before the clear) are in no record of the
\* stroke list or the eraser-stroke list after the next step, the
\* pointer-up included.
C38_ClearDropsBufferedPoints ==
  [][ ((Received(last, "clear") \/ last.op = "handleClearClick") /\ isDrawing)
        => LET buffered == { currentStroke[k] : k \in 1..Len(currentStroke) }
                 \cup { currentEraserStroke[k] : k \in 1..Len(currentEraserStroke) }
           IN  buffered \cap (PointsOf(strokes') \cup PointsOf(eraserStrokes')) = {}
    ]_vars

(***************************************************************************)
(* SpecInbound: the relay delivers well-formed and malformed frames while  *)
(* the local user selects shapes.                                          *)
(***************************************************************************)
\* scene messages missing their payload, and a message of unknown type
MalformedMessages ==
  { [type |-> "addShape", username |-> RemoteUser],
    [type |-> "updateShape", username |-> RemoteUser,
     updates |-> [x |-> UpPoint[1], y |-> UpPoint[2]]],
    [type |-> "updateShape", username |-> RemoteUser, shapeId |-> RemoteRect.id],
    [type |-> "deleteShape", username |-> RemoteUser],
    [type |-> "draw", username |-> RemoteUser],
    [type |-> "bogus", username |-> RemoteUser] }

WellFormedMessages ==
  { RemoteRectMessage,
    [type |-> "draw", username |-> RemoteUser, points |-> RemoteSegments_pen],
    [type |-> "cursor", username |-> RemoteUser, x |-> 10, y |-> 10,
     isDrawing |-> FALSE] }

NextInbound ==
  \/ \E message \in WellFormedMessages : OnSceneMessage(message)
  \/ \E message \in MalformedMessages : OnSceneMessage(message)
  \/ OnParseError
  \/ SetDrawingMode("select")
  \/ drawingMode = "select" /\ StartDrawing(DownPoint[1], DownPoint[2])
  \/ StopDrawing(DownPoint[1], DownPoint[2])

SpecInbound == InitRoom /\ [][NextInbound]_vars

\* the step handles a malformed frame
Malformed(l) ==
  \/ l.op = "onparseerror"
  \/ l.op = "onmessage" /\ l.message \in MalformedMessages

\* C12: a frame that is not valid JSON, a message of unknown type or a
\* scene message missing its payload changes none of shapes, strokes,
\* eraser strokes, selection and cursors.
C12_MalformedMessageIsIgnored ==
  [][ Malformed(last')
        => UNCHANGED << shapes, strokes, eraserStrokes, selectedShapeId,
                        userCursors >> ]_vars

\* C12 witness: a malformed frame has been handled in a scene that holds a
\* shape, a stroke, a selection and a cursor
C12_Witness ==
  /\ Malformed(last)
  /\ shapes # << >> /\ strokes # << >>
  /\ selectedShapeId # Null /\ userCursors # << >>

(***************************************************************************)
(* SpecPointer: the local user works with mouse and touch in pen, eraser,  *)
(* select and rectangle mode on a board holding the remote participant's   *)
(* rectangle; the pointer leaves the canvas or the touch is cancelled.     *)
(* Mouse-up and mouse-leave both run stopDrawing.                          *)
(***************************************************************************)
PointerModes == {"pen", "eraser", "select", "rectangle"}

NextPointer ==
  \/ OnSceneMessage(RemoteRectMessage)
  \/ \E mode \in PointerModes : SetDrawingMode(mode)
  \/ StartDrawing(DownPoint[1], DownPoint[2])
  \/ HandleMouseMove(UpPoint[1], UpPoint[2])
  \/ StopDrawing(UpPoint[1], UpPoint[2])
  \/ HandleTouchStart(DownPoint[1], DownPoint[2])
  \/ HandleTouchMove(UpPoint[1], UpPoint[2])
  \/ HandleTouchEnd
  \/ TouchCancel

SpecPointer == InitRoom /\ [][NextPointer]_vars

\* the Idle state of the interaction controller
Idle ==
  /\ ~isDrawing /\ ~isDrawingShape
  /\ dragOffset = NoPoint /\ resizeHandle = Null /\ lastPoint = NoPoint

\* C13 (as claimed): after a pointer-leave (stopDrawing) or a touch-cancel
\* the controller is Idle and no stroke is left in progress.
C13_LeaveOrCancelReturnsToIdle ==
  last.op \in {"stopDrawing", "touchcancel"}
    => Idle /\ currentStroke = << >> /\ currentEraserStroke = << >>

\* C25 (as claimed, in the consequence the claim singles out): a touch
\* move acts as the pointer move of the same mode, so in a mode other than
\* pen or eraser it buffers no pen point and sends no draw message.
C25_TouchInkOnlyInInkModes ==
  (last.op = "handleTouchMove" /\ drawingMode \notin InkModes)
    => /\ currentStroke = << >>
       /\ \A i \in 1..Len(out) : out[i].type # "draw"

\* C28 (as claimed): a pointer-move while a selected shape is dragged or
\* resized sends an updateShape for that shape whose updates carry the
\* full field set of the shape as it now is in the list.
C28_MoveSendsFullFieldUpdate ==
  (/\ last.op = "handleMouseMove" /\ drawingMode = "select"
   /\ isDrawing /\ selectedShapeId # Null
   /\ (resizeHandle # Null \/ dragOffset # NoPoint)
   /\ HasId(shapes, selectedShapeId))
    => \E i \in 1..Len(out) :
         /\ out[i].type = "updateShape"
         /\ out[i].shapeId = selectedShapeId
         /\ out[i].updates = FindShape(shapes, selectedShapeId)

(***************************************************************************)
(* SpecEraser: the board holds two small circles of the remote             *)
(* participant, one on the path of the eraser and one away from it; the    *)
(* local user picks an eraser size and sweeps the eraser from EraseFrom.   *)
(***************************************************************************)
\* a circle of radius 3 (the radius field holds the square)
RemoteCircle(id, x, y) ==
  [id |-> id, type |-> "circle", x |-> x, y |-> y, color |-> "#ff0000",
   size |-> 3, username |-> RemoteUser, radius |-> 3 * 3]

NearCircle == RemoteCircle("shape-r2", 50, 1)
FarCircle == RemoteCircle("shape-r3", 50, 20)
EraseFrom == Pt(0, 0)
EraseTo == { Pt(100, 0), Pt(50, 0), Pt(50, 10) }

CircleMessages ==
  { [type |-> "addShape", username |-> RemoteUser, shapeId |-> sh.id,
     shape |-> sh] : sh \in { c \in {NearCircle, FarCircle} : ~HasId(shapes, c.id) } }

NextEraser ==
  \/ \E message \in CircleMessages : OnSceneMessage(message)
  \/ SetDrawingMode("eraser")
  \/ SetEraserSize(1)
  \/ drawingMode = "eraser" /\ StartDrawing(EraseFrom[1], EraseFrom[2])
  \/ \E p \in EraseTo : HandleMouseMove(p[1], p[2])
  \/ \E p \in EraseTo : StopDrawing(p[1], p[2])

SpecEraser == InitRoom /\ [][NextEraser]_vars

\* the step is one eraser move from (0,0) to (100,0) with the eraser at
\* size 1 (10px wide, radius 5)
SmallEraserSweep ==
  /\ last'.op = "handleMouseMove" /\ last'.x = 100 /\ last'.y = 0
  /\ drawingMode = "eraser" /\ eraserSize = 1
  /\ isDrawing /\ lastPoint = EraseFrom

\* C14 (as claimed): one move of the radius-5 eraser from (0,0) to (100,0)
\* deletes the circle of radius 3 centred at (50,1) and keeps the circle of
\* radius 3 centred at (50,20).
C14_SweepDeletesNearCircleOnly ==
  [][ SmallEraserSweep
        => /\ ~HasId(shapes', NearCircle.id)
           /\ HasId(shapes, FarCircle.id) => HasId(shapes', FarCircle.id) ]_vars

\* the step is an eraser move of the pointer
EraserMove ==
  /\ last'.op = "handleMouseMove"
  /\ drawingMode = "eraser" /\ isDrawing /\ lastPoint # NoPoint

\* the eraser of the current size, placed at the point i/n of the way from
\* the previous cursor position to (x, y), touches the shape
TouchedAt(i, n, x, y, shape) ==
  LET r == getEraserSize(eraserSize) \div 2
      dx == (x - lastPoint[1]) * i
      dy == (y - lastPoint[2]) * i
  IN  IF dx % n = 0 /\ dy % n = 0
        THEN isShapeTouchedByEraser(lastPoint[1] + dx \div n,
                                    lastPoint[2] + dy \div n, r, shape, 1)
        ELSE isShapeTouchedByEraser(n * lastPoint[1] + dx,
                                    n * lastPoint[2] + dy, r, shape, n)

\* C29 (as claimed): on an eraser move the shapes removed are those touched
\* at one of 5 evenly spaced points of the segment from the previous to the
\* current cursor position (its two ends and the points at 1/4, 1/2 and
\* 3/4 of the way).
C29_FiveSamplePoints ==
  [][ EraserMove
        => \A k \in 1..Len(shapes) :
             ~HasId(shapes', shapes[k].id)
               <=> \E i \in 0..4 : TouchedAt(i, 4, last'.x, last'.y, shapes[k])
    ]_vars

\* the shape is touched at one of the sample points of the move to (x, y)
TouchedByMove(x, y, shape) ==
  \E i \in 0..steps : TouchedAt(i, steps, x, y, shape)

\* C30: on an eraser move every shape touched at a sample point is removed
\* from the list, the shapes touched at none stay unchanged and in their
\* order, and exactly one deleteShape is sent for each removed id and none
\* for any other id.
C30_EraserMoveDeletesTouchedShapes ==
  [][ EraserMove
        => LET x == last'.x
               y == last'.y
               kept == SelectSeq(shapes, LAMBDA sh : ~TouchedByMove(x, y, sh))
               removed == { shapes[k].id : k \in { j \in 1..Len(shapes) :
                                            TouchedByMove(x, y, shapes[j]) } }
               sent(id) == { i \in 1..Len(out') :
                               /\ out'[i].type = "deleteShape"
                               /\ out'[i].shapeId = id }
           IN  /\ shapes' = kept
               /\ \A id \in removed : Cardinality(sent(id)) = 1
               /\ \A i \in 1..Len(out') :
                    out'[i].type = "deleteShape" => out'[i].shapeId \in removed
    ]_vars

\* C30 witness: with both circles on the board an eraser move has removed
\* the one it touched, sent its deleteShape and kept the other
C30_Witness ==
  /\ last.op = "handleMouseMove" /\ drawingMode = "eraser" /\ isDrawing
  /\ shapes = << FarCircle >>
  /\ Cardinality({ i \in 1..Len(out) : out[i].type = "deleteShape" }) = 1
  /\ \E i \in 1..Len(out) :
       out[i].type = "deleteShape" /\ out[i].shapeId = NearCircle.id

(***************************************************************************)
(* SpecResize: the board holds one rectangle of the remote participant;    *)
(* the local user, in select mode, presses the pointer on one of its eight *)
(* handles or inside it and moves the pointer while holding a handle.      *)
(***************************************************************************)
Rect17 ==
  [id |-> "shape-r4", type |-> "rectangle", x |-> 10, y |-> 10,
   color |-> "#ff0000", size |-> 3, username |-> RemoteUser,
   width |-> 50, height |-> 30]

Rect17Message ==
  [type |-> "addShape", username |-> RemoteUser, shapeId |-> Rect17.id,
   shape |-> Rect17]

\* the eight handles of Rect17 and a point inside it
PressPoints ==
  { Pt(10, 10), Pt(60, 10), Pt(10, 40), Pt(60, 40),
    Pt(35, 10), Pt(35, 40), Pt(10, 25), Pt(60, 25), Pt(30, 20) }

\* outside the rectangle, just inside its far corner, just inside its origin
MovePoints == { Pt(70, 50), Pt(58, 38), Pt(12, 12) }

NextResize ==
  \/ ~HasId(shapes, Rect17.id) /\ OnSceneMessage(Rect17Message)
  \/ SetDrawingMode("select")
  \/ \E p \in PressPoints : drawingMode = "select" /\ StartDrawing(p[1], p[2])
  \/ \E p \in MovePoints : resizeHandle # Null /\ HandleMouseMove(p[1], p[2])
  \/ \E p \in MovePoints : StopDrawing(p[1], p[2])

SpecResize == InitRoom /\ [][NextResize]_vars

\* the step is a resize pointer-move of a selected rectangle
ResizeStep ==
  /\ last'.op = "handleMouseMove"
  /\ drawingMode = "select" /\ isDrawing /\ resizeHandle # Null
  /\ HasId(shapes, selectedShapeId)
  /\ FindShape(shapes, selectedShapeId).type = "rectangle"

\* C15 (as claimed): a resize pointer-move of a rectangle with a handle
\* that adjusts width, at a cursor position that would make the width
\* smaller than 5, leaves the width at exactly 5; likewise for height.
C15_ResizeClampsToFive ==
  [][ ResizeStep =>
        LET shape == FindShape(shapes, selectedShapeId)
            after == FindShape(shapes', selectedShapeId)
            x == last'.x
            y == last'.y
        IN  /\ (HandleIncludes(resizeHandle, "r") /\ x - shape.x < 5)
                 => after.width = 5
            /\ (HandleIncludes(resizeHandle, "l") /\ (shape.x + shape.width) - x < 5)
                 => after.width = 5
            /\ (HandleIncludes(resizeHandle, "b") /\ y - shape.y < 5)
                 => after.height = 5
            /\ (HandleIncludes(resizeHandle, "t") /\ (shape.y + shape.height) - y < 5)
                 => after.height = 5
    ]_vars

\* C17: for the rectangle {x:10, y:10, width:50, height:30} a press at
\* (30,20) hits the shape, a press at (10,10) grabs handle 'tl', and a
\* resize pointer-move with handle 'br' to (70,50) gives width 60 and height
\* 40 with x and y unchanged.
C17_RectangleExample ==
  [][ /\ isPointInShape(30, 20, Rect17)
      /\ getResizeHandle(Rect17, 10, 10) = "tl"
      /\ (/\ last'.op = "startDrawing" /\ last'.x = 30 /\ last'.y = 20
          /\ drawingMode = "select" /\ shapes = << Rect17 >>)
           => selectedShapeId' = Rect17.id /\ isDrawing'
      /\ (/\ last'.op = "startDrawing" /\ last'.x = 10 /\ last'.y = 10
          /\ drawingMode = "select" /\ shapes = << Rect17 >>)
           => selectedShapeId' = Rect17.id /\ resizeHandle' = "tl"
      /\ (/\ ResizeStep /\ resizeHandle = "br" /\ shapes = << Rect17 >>
          /\ last'.x = 70 /\ last'.y = 50)
           => shapes' = << [Rect17 EXCEPT !.width = 60, !.height = 40] >>
    ]_vars

\* C17 witness: handle 'br' of the rectangle has been moved to (70,50)
C17_Witness ==
  /\ last.op = "handleMouseMove" /\ last.x = 70 /\ last.y = 50
  /\ resizeHandle = "br"
  /\ shapes = << [Rect17 EXCEPT !.width = 60, !.height = 40] >>

(***************************************************************************)
(* SpecSelect: the board receives two overlapping rectangles of the remote *)
(* participant, in either order; the local user presses and releases the   *)
(* pointer in select mode on their handles, inside them and outside them.  *)
(***************************************************************************)
NextSelect ==
  \/ ~HasId(shapes, Rect17.id) /\ OnSceneMessage(Rect17Message)
  \/ ~HasId(shapes, RemoteRect.id) /\ OnSceneMessage(RemoteRectMessage)
  \/ SetDrawingMode("select")
  \/ \E p \in PressPoints \cup MovePoints :
       drawingMode = "select" /\ StartDrawing(p[1], p[2])
  \/ \E p \in MovePoints : StopDrawing(p[1], p[2])

SpecSelect == InitRoom /\ [][NextSelect]_vars

\* indexes of the shapes containing the point
Hits(x, y) == { i \in 1..Len(shapes) : isPointInShape(x, y, shapes[i]) }

BoxModes == {"rectangle", "triangle"}
DrawPoints == { Pt(20, 20), Pt(40, 30), Pt(20, 40) }

NextDraw ==
  \/ OnSceneMessage(RemoteRectMessage)
  \/ \E mode \in ShapeModes : SetDrawingMode(mode)
  \/ \E p \in Points : drawingMode \in ShapeModes /\ StartDrawing(p[1], p[2])
  \/ \E p \in DrawPoints : HandleMouseMove(p[1], p[2])
  \/ \E p \in DrawPoints : StopDrawing(p[1], p[2])
  \/ HandleClearClick

SpecDraw == InitRoom /\ [][NextDraw]_vars

\* the shape was drawn by the local user and carries width and height
LocalBox(shape) ==
  /\ shape.username = username
  /\ shape.type \in BoxModes
  /\ Defined(shape, "width") /\ Defined(shape, "height")

\* points outside the bounding box by more than max(|width|, |height|)
FarPoints(shape) ==
  LET d == Max(Abs(shape.width), Abs(shape.height)) + 1
      left == Min(shape.x, shape.x + shape.width)
      right == Max(shape.x, shape.x + shape.width)
      top == Min(shape.y, shape.y + shape.height)
      bottom == Max(shape.y, shape.y + shape.height)
  IN  { Pt(left - d, top), Pt(right + d, bottom), Pt(left, top - d),
        Pt(right, bottom + d) }

\* C16 (as claimed): every shape with width and height that a local
\* drawing interaction produced (here: with non-zero, even width and
\* height, positive or negative) contains its centre and contains no point
\* lying more than max(width, height) outside its bounding box.
C16_CentreIsInsideShape ==
  \A i \in 1..Len(shapes) :
    (/\ LocalBox(shapes[i])
     /\ shapes[i].width # 0 /\ shapes[i].height # 0
     /\ shapes[i].width % 2 = 0 /\ shapes[i].height % 2 = 0)
      => /\ isPointInShape(shapes[i].x + shapes[i].width \div 2,
                           shapes[i].y + shapes[i].height \div 2, shapes[i])
         /\ \A p \in FarPoints(shapes[i]) : ~isPointInShape(p[1], p[2], shapes[i])

\* the variant-specific fields of the shape are all present / all absent
\* under the presence test of isPointInShape
FieldsPresent(shape) ==
  CASE shape.type \in {"rectangle", "triangle"} ->
         Truthy(shape, "width") /\ Truthy(shape, "height")
    [] shape.type = "circle" -> Truthy(shape, "radius")
    [] shape.type = "line" -> Defined(shape, "endX") /\ Defined(shape, "endY")
    [] OTHER -> TRUE

FieldsAbsent(shape) ==
  CASE shape.type \in {"rectangle", "triangle"} ->
         ~Truthy(shape, "width") /\ ~Truthy(shape, "height")
    [] shape.type = "circle" -> ~Truthy(shape, "radius")
    [] shape.type = "line" -> ~Defined(shape, "endX") /\ ~Defined(shape, "endY")
    [] OTHER -> TRUE

\* C23 (as claimed): every shape of the list has its variant-specific
\* fields jointly present or jointly absent, and a shape committed by a
\* pointer-up in a shape-drawing mode has them present.
C23_VariantFieldsJointlyPresent ==
  /\ \A i \in 1..Len(shapes) :
       FieldsPresent(shapes[i]) \/ FieldsAbsent(shapes[i])
  /\ (last.op = "stopDrawing" /\ Len(out) = 1 /\ out[1].type = "addShape")
       => FieldsPresent(out[1].shape)

\* C27: in a shape-drawing mode the pointer-down and the pointer-moves
\* leave the shape list unchanged and send no addShape; the pointer-up
\* appends exactly one shape of the mode's type whose origin is the anchor
\* and whose dimensions are the signed delta anchor -> release (rectangle,
\* triangle), the Euclidean distance (circle, kept squared) or the release
\* point (line), and sends exactly one addShape carrying that shape.
C27_ShapeCommittedAtPointerUp ==
  [][ /\ (/\ last'.op \in {"startDrawing", "handleMouseMove"}
          /\ drawingMode \in ShapeModes)
           => /\ shapes' = shapes
              /\ \A i \in 1..Len(out') : out'[i].type # "addShape"
      /\ (/\ last'.op = "stopDrawing" /\ drawingMode \in ShapeModes
          /\ isDrawingShape /\ shapeStart # NoPoint)
           => LET sh == shapes'[Len(shapes')]
                  dx == last'.x - shapeStart[1]
                  dy == last'.y - shapeStart[2]
              IN  /\ Len(shapes') = Len(shapes) + 1
                  /\ SubSeq(shapes', 1, Len(shapes)) = shapes
                  /\ sh.type = drawingMode
                  /\ sh.x = shapeStart[1] /\ sh.y = shapeStart[2]
                  /\ drawingMode \in {"rectangle", "triangle"}
                       => sh.width = dx /\ sh.height = dy
                  /\ drawingMode = "circle" => sh.radius = dx * dx + dy * dy
                  /\ drawingMode = "line"
                       => sh.endX = last'.x /\ sh.endY = last'.y
                  /\ out' = << [type |-> "addShape", roomId |-> currentRoom,
                                shapeId |-> sh.id, shape |-> sh] >>
    ]_vars

\* C27 witness: a pointer-up has committed a rectangle drawn leftwards and
\* upwards (negative width and height) and sent its addShape
C27_Witness ==
  /\ last.op = "stopDrawing" /\ drawingMode = "rectangle"
  /\ Len(out) = 1 /\ out[1].type = "addShape"
  /\ out[1].shape.width < 0 /\ out[1].shape.height < 0
  /\ shapes[Len(shapes)] = out[1].shape

(***************************************************************************)
(* SpecLacking: the remote participant adds shapes that lack a field their *)
(* variant requires; the local user presses on them in select mode and     *)
(* sweeps the eraser over them.                                            *)
(***************************************************************************)
\* a shape at DownPoint with the given type and variant fields
RemoteShape(id, type, fields) ==
  Merge([id |-> id, type |-> type, x |-> DownPoint[1], y |-> DownPoint[2],
         color |-> "#ff0000", size |-> 3, username |-> RemoteUser], fields)

LackingShapes ==
  { RemoteShape("shape-m1", "rectangle", [height |-> 10]),
    RemoteShape("shape-m2", "rectangle", [width |-> 20, height |-> 0]),
    RemoteShape("shape-m3", "circle", [width |-> 20]),
    RemoteShape("shape-m4", "line", [endX |-> 40]),
    RemoteShape("shape-m5", "triangle", [width |-> 20]),
    RemoteShape("shape-m6", "image", [height |-> 10]),
    RemoteShape("shape-m7", "text", [fontSize |-> TextFontSize]),
    RemoteShape("shape-m8", "text", [text |-> << >>, fontSize |-> TextFontSize]) }

LackingMessages ==
  { [type |-> "addShape", username |-> RemoteUser, shapeId |-> sh.id,
     shape |-> sh] : sh \in { l \in LackingShapes : ~HasId(shapes, l.id) } }

LackingModes == {"select", "eraser"}

NextLacking ==
  \/ \E message \in LackingMessages : OnSceneMessage(message)
  \/ \E mode \in LackingModes : SetDrawingMode(mode)
  \/ drawingMode \in LackingModes /\ StartDrawing(DownPoint[1], DownPoint[2])
  \/ HandleMouseMove(UpPoint[1], UpPoint[2])
  \/ StopDrawing(UpPoint[1], UpPoint[2])

SpecLacking == InitRoom /\ [][NextLacking]_vars

\* the shape lacks a field its variant requires
Lacking(shape) ==
  CASE shape.type \in {"rectangle", "triangle", "image"} ->
         ~Truthy(shape, "width") \/ ~Truthy(shape, "height")
    [] shape.type = "circle" -> ~Truthy(shape, "radius")
    [] shape.type = "line" -> ~Defined(shape, "endX") \/ ~Defined(shape, "endY")
    [] shape.type = "text" ->
         /\ ~(Defined(shape, "width") /\ Defined(shape, "height"))
         /\ ("text" \notin DOMAIN shape \/ shape.text = << >>)
    [] OTHER -> FALSE

\* points on, inside and around the places the shapes would occupy
ProbePoints ==
  { DownPoint, UpPoint, Pt(30, 25), Pt(20, 30), Pt(40, 20), Pt(0, 0) }

\* C31: for every shape of the list lacking a field its variant requires
\* and every probed point and eraser radius, isPointInShape is false,
\* getResizeHandle is null and isShapeTouchedByEraser is false (each test
\* evaluates without failing); accordingly a press in select mode on such
\* shapes selects nothing and an eraser move over them removes nothing.
C31_LackingShapeNeverMatches ==
  /\ \A i \in 1..Len(shapes) :
       Lacking(shapes[i])
         => \A p \in ProbePoints :
              /\ ~isPointInShape(p[1], p[2], shapes[i])
              /\ getResizeHandle(shapes[i], p[1], p[2]) = Null
              /\ \A size \in EraserSizes :
                   ~isShapeTouchedByEraser(p[1], p[2],
                                           getEraserSize(size) \div 2,
                                           shapes[i], 1)
  /\ (last.op = "startDrawing" /\ drawingMode = "select")
       => selectedShapeId = Null /\ ~isDrawing

\* C31 witness: with two lacking shapes on the board, one of them a text
\* without text, the eraser has been moved across them and both remain
C31_Witness ==
  /\ last.op = "handleMouseMove" /\ drawingMode = "eraser" /\ isDrawing
  /\ Len(shapes) = 2
  /\ Lacking(shapes[1]) /\ Lacking(shapes[2])
  /\ \E i \in 1..2 : shapes[i].type = "text"

(***************************************************************************)
(* SpecDrag: the board receives a rectangle and a horizontal line of the   *)
(* remote participant; the local user presses on them in select mode, away *)
(* from their handles, moves the pointer and releases it.                  *)
(***************************************************************************)
\* a line from (20,20) to (60,20)
RemoteLine == RemoteShape("shape-r3", "line", [endX |-> 60, endY |-> 20])
RemoteLineMessage ==
  [type |-> "addShape", username |-> RemoteUser, shapeId |-> RemoteLine.id,
   shape |-> RemoteLine]

\* (40,20) is on the line, (25,25) within its hit distance; both are inside
\* the rectangle and away from the handles of either shape
DragFrom == { Pt(40, 20), Pt(25, 25) }
DragTo == { Pt(50, 30) }

NextDrag ==
  \/ ~HasId(shapes, RemoteLine.id) /\ OnSceneMessage(RemoteLineMessage)
  \/ ~HasId(shapes, RemoteRect.id) /\ OnSceneMessage(RemoteRectMessage)
  \/ SetDrawingMode("select")
  \/ \E p \in DragFrom : drawingMode = "select" /\ StartDrawing(p[1], p[2])
  \/ \E p \in DragTo : HandleMouseMove(p[1], p[2])
  \/ \E p \in DragTo : StopDrawing(p[1], p[2])

SpecDrag == InitRoom /\ [][NextDrag]_vars

\* C40 (as claimed): a pointer-move in DraggingSelection puts the origin of
\* the selected shape at cursor minus drag offset, leaves every other shape
\* as it is and keeps the geometry of the shape relative to its origin: its
\* other fields are unchanged, except that the end point of a line moves
\* with the origin (endX - x and endY - y are the same before and after).
C40_DragTranslatesRigidly ==
  [][ (/\ last'.op = "handleMouseMove"
       /\ drawingMode = "select" /\ isDrawing
       /\ dragOffset # NoPoint /\ resizeHandle = Null
       /\ HasId(shapes, selectedShapeId))
        => /\ Len(shapes') = Len(shapes)
           /\ \A i \in 1..Len(shapes) :
                IF shapes[i].id = selectedShapeId
                  THEN /\ DOMAIN shapes'[i] = DOMAIN shapes[i]
                       /\ shapes'[i].x = last'.x - dragOffset[1]
                       /\ shapes'[i].y = last'.y - dragOffset[2]
                       /\ Defined(shapes[i], "endX")
                            => shapes'[i].endX - shapes'[i].x
                                 = shapes[i].endX - shapes[i].x
                       /\ Defined(shapes[i], "endY")
                            => shapes'[i].endY - shapes'[i].y
                                 = shapes[i].endY - shapes[i].y
                       /\ \A f \in DOMAIN shapes[i] \ {"x", "y", "endX", "endY"} :
                            shapes'[i][f] = shapes[i][f]
                  ELSE shapes'[i] = shapes[i]
    ]_vars

(***************************************************************************)
(* SpecSession: the session from the mount on.  The socket opens, the user *)
(* logs in, joins or creates a room, leaves it and joins another one;      *)
(* while a room is shown the relay delivers ink, cursor and shape messages *)
(* of the remote participant and echoes of the local user's own, and the   *)
(* user selects a shape or places a text.                                  *)
(***************************************************************************)
\* the roomCreated / roomJoined replies of the server
RoomMessages ==
  { [type |-> t, roomId |-> r, roomName |-> r] :
      t \in {"roomCreated", "roomJoined"}, r \in Rooms }

SessionModes == {"select", "text"}

\* the draw and cursor messages of both senders, and the remote rectangle
SessionMessages ==
  { m \in InkMessages :
      /\ m.type = "draw" => m.points = RemoteSegments_pen
      /\ m.type = "cursor" => m.isDrawing } \cup {RemoteRectMessage}

NextSession ==
  \/ WsOnOpen
  \/ \E name \in LocalUsers : HandleLogin(name)
  \/ \E message \in RoomMessages : OnRoomJoined(message)
  \/ HandleLeaveRoom
  \/ view = "whiteboard" /\ \E message \in SessionMessages : OnSceneMessage(message)
  \/ view = "whiteboard" /\ \E mode \in SessionModes : SetDrawingMode(mode)
  \/ /\ view = "whiteboard" /\ drawingMode \in SessionModes
     /\ StartDrawing(DownPoint[1], DownPoint[2])
  \/ view = "whiteboard" /\ StopDrawing(DownPoint[1], DownPoint[2])

SpecSession == Init /\ [][NextSession]_vars

\* C34 (as claimed): once the user is logged in, an inbound draw or cursor
\* message whose username is the username then in force leaves strokes,
\* eraser strokes and the cursor map unchanged.
C34_EchoFilterUsesCurrentUsername ==
  [][ (/\ username # ""
       /\ last'.op = "onmessage"
       /\ last'.message.type \in {"draw", "cursor"}
       /\ last'.message.username = username)
        => UNCHANGED << strokes, eraserStrokes, userCursors >> ]_vars

\* C39 (as claimed): when a roomJoined or roomCreated message has been
\* processed, shapes, strokes and eraser strokes are empty and
\* selectedShapeId and editingTextId are null.
C39_JoinStartsWithEmptyScene ==
  (last.op = "onmessage" /\ last.message.type \in {"roomCreated", "roomJoined"})
    => /\ shapes = << >>
       /\ strokes = << >>
       /\ eraserStrokes = << >>
       /\ selectedShapeId = Null
       /\ editingTextId = Null

(***************************************************************************)
(* SpecPresence: remote participants move their cursors and leave the room *)
(* while the local user changes tool and moves the pointer.  The event     *)
(* loop keeps dispatching the events that are pending (weak fairness of    *)
(* the next-state relation); the component registers no timer.             *)
(***************************************************************************)
PresenceUsers == {RemoteUser, "carol"}
PresenceModes == {"pen", "select"}

\* the cursor and userLeft messages of the remote participants
PresenceMessages ==
       { [type |-> "cursor", username |-> u, x |-> x, y |-> 10,
          isDrawing |-> d] :
           u \in PresenceUsers, x \in {10, 30}, d \in BOOLEAN }
  \cup { [type |-> "userLeft", username |-> u] : u \in PresenceUsers }

NextPresence ==
  \/ \E message \in PresenceMessages : OnSceneMessage(message)
  \/ \E mode \in PresenceModes : SetDrawingMode(mode)
  \/ HandleMouseMove(UpPoint[1], UpPoint[2])

SpecPresence == InitRoom /\ [][NextPresence]_vars /\ WF_vars(NextPresence)

\* the cursor map holds an entry for u
HasCursor(u) == u \in DOMAIN userCursors

\* the last step handled a cursor message of u
Refreshed(u) ==
  /\ last.op = "onmessage"
  /\ last.message.type = "cursor"
  /\ last.message.username = u

\* C20 (as claimed): an entry of the cursor map that stops being refreshed
\* by cursor messages is eventually removed from the map, with no leave
\* message needed.
C20_StaleCursorIsRemoved ==
  \A u \in PresenceUsers :
    (HasCursor(u) /\ ~Refreshed(u)) ~> (~HasCursor(u) \/ Refreshed(u))

(***************************************************************************)
(* SpecRelay: three clients of one room run this code on the same scene    *)
(* (one rectangle).  Two of them drag and resize the rectangle; every      *)
(* updateShape they send is delivered by the relay to each other client,   *)
(* in order per sender, in any order across senders.  The third client     *)
(* only receives.                                                          *)
(***************************************************************************)
Editors == {"alice", "bob"}
Peers == Editors \cup {"carol"}
RelayDragOffset == Pt(5, 5)
RelayHandles == {"br"}

InitRelay ==
  /\ InRoom
  /\ peerShapes = [p \in Peers |-> << RemoteRect >>]
  /\ net = {}
  /\ applied = [p \in Peers |-> << >>]
  /\ stamp = 0

\* the updateShape message of an edit, one copy in flight per other client
Broadcast(p, shapeId, updates) ==
  { [type |-> "updateShape", username |-> p, shapeId |-> shapeId,
     updates |-> updates, to |-> q, stamp |-> stamp + 1] :
      q \in Peers \ {p} }

\* client p processes one event: its scene and its processing history
Process(p, shps, kind, shapeId, updates) ==
  /\ peerShapes' = [peerShapes EXCEPT ![p] = shps]
  /\ applied' = [applied EXCEPT ![p] =
                   Append(@, [kind |-> kind, stamp |-> stamp', shapeId |-> shapeId,
                              updates |-> updates])]

\* handleMouseMove on client p, drag branch: the selected rectangle follows
\* the pointer and updateShape {x, y} is sent
LocalDrag(p, x, y) ==
  /\ stamp < MaxEdits
  /\ HasId(peerShapes[p], RemoteRect.id)
  /\ LET newX == x - RelayDragOffset[1]
         newY == y - RelayDragOffset[2]
     IN  /\ stamp' = stamp + 1
         /\ Process(p, DragShape(peerShapes[p], RemoteRect.id, newX, newY),
                    "local", RemoteRect.id, [x |-> newX, y |-> newY])
         /\ net' = net \cup Broadcast(p, RemoteRect.id, [x |-> newX, y |-> newY])
  /\ UNCHANGED clientVars

\* handleMouseMove on client p, resize branch: the rectangle is resized by
\* the handle and updateShape with every field of the shape is sent
LocalResize(p, handle, x, y) ==
  /\ stamp < MaxEdits
  /\ HasId(peerShapes[p], RemoteRect.id)
  /\ LET updatedShape ==
           ResizeShape(FindShape(peerShapes[p], RemoteRect.id), handle, x, y)
     IN  /\ stamp' = stamp + 1
         /\ Process(p, ReplaceShape(peerShapes[p], RemoteRect.id, updatedShape),
                    "local", RemoteRect.id, updatedShape)
         /\ net' = net \cup Broadcast(p, RemoteRect.id, updatedShape)
  /\ UNCHANGED clientVars

\* ws.onmessage on client m.to, updateShape case
Deliver(m) ==
  /\ m \in net
  /\ \A o \in net : (o.to = m.to /\ o.username = m.username) => o.stamp >= m.stamp
  /\ net' = net \ {m}
  /\ peerShapes' = [peerShapes EXCEPT ![m.to] = UpdateShape(@, m.shapeId, m.updates)]
  /\ applied' = [applied EXCEPT ![m.to] =
                   Append(@, [kind |-> "inbound", stamp |-> m.stamp,
                              shapeId |-> m.shapeId, updates |-> m.updates])]
  /\ UNCHANGED << stamp, clientVars >>

NextRelay ==
  \/ \E p \in Editors, pt \in Points : LocalDrag(p, pt[1], pt[2])
  \/ \E p \in Editors, h \in RelayHandles, pt \in Points :
       LocalResize(p, h, pt[1], pt[2])
  \/ \E m \in net : Deliver(m)

SpecRelay == InitRelay /\ [][NextRelay]_vars

(***************************************************************************)
(* Properties of concurrent updates (checked under SpecRelay).             *)
(***************************************************************************)
\* client p has just processed two inbound updateShape messages for the
\* same shape back to back, the later generated one (B) first and the
\* earlier generated one (A) second, and still holds the shape
ProcessedBThenA(p) ==
  LET n == Len(applied[p]) IN
  /\ n >= 2
  /\ applied[p][n].kind = "inbound" /\ applied[p][n - 1].kind = "inbound"
  /\ applied[p][n].shapeId = applied[p][n - 1].shapeId
  /\ applied[p][n].stamp < applied[p][n - 1].stamp
  /\ HasId(peerShapes[p], applied[p][n].shapeId)

MessageA(p) == applied[p][Len(applied[p])]
MessageB(p) == applied[p][Len(applied[p]) - 1]

\* the shape on client p carries every field value of the update
Reflects(p, m) ==
  \A f \in DOMAIN m.updates :
    FindShape(peerShapes[p], m.shapeId)[f] = m.updates[f]

\* C5 (as claimed): after a client processes B then A, where A was
\* generated earlier than B, its shape reflects B.
C5_EarlierGeneratedLoses ==
  \A p \in Peers : ProcessedBThenA(p) => Reflects(p, MessageB(p))

\* C5 (amended): after a client processes B then A, where A was generated
\* earlier than B, its shape reflects A, the message processed last: every
\* field A carries has A's value.
C5_LastProcessedWins ==
  \A p \in Peers : ProcessedBThenA(p) => Reflects(p, MessageA(p))

\* C5 witness: a client processed B then A, the two disagree on x, and the
\* shape has A's x
C5_Witness ==
  \E p \in Peers :
    /\ ProcessedBThenA(p)
    /\ MessageA(p).updates.x # MessageB(p).updates.x
    /\ FindShape(peerShapes[p], MessageA(p).shapeId).x = MessageA(p).updates.x

\* C6 (as claimed): when the two editing clients have made their edits and
\* every message has been delivered, they hold the same state of the shape.
C6_SettledClientsAgree ==
  net = {} =>
    FindShape(peerShapes["alice"], RemoteRect.id)
      = FindShape(peerShapes["bob"], RemoteRect.id)

====
